---- MODULE Spec2Model ----
(***************************************************************************)
(* Model of the query orchestration engine of the SEO RAG assistant:       *)
(*   - the LangGraph workflow of src/src/app/page.tsx (router, STANDARD    *)
(*     tool loop, STRATEGY, COMPARISON),                                   *)
(*   - the schema-repair guard of src/src/app/guardrails.ts,               *)
(*   - the five retrieval tools of src/src/app/tools.ts.                   *)
(* Text is abstracted to sequences of tokens; the model service, the store *)
(* and the vector search are the environment: every reply and every        *)
(* failure they can produce is a nondeterministic choice.                  *)
(***************************************************************************)
EXTENDS Naturals, Integers, Sequences, FiniteSets, TLC

VARIABLES
    \* ---- one orchestration run (SEOGraphState and the position in the graph)
    pc,                  \* the node the graph runs next, or END / ABORTED
    conversationHistory, \* state.conversationHistory
    intent,              \* state.intent
    messages,            \* state.messages
    answer,              \* state.answer
    responseType,        \* state.responseType
    executed,            \* the nodes executed so far, in order
    modelLog,            \* invocations of modelWithTools: <<input, output>> records
    toolLog,             \* tool calls executed so far, in order
    modelCalls,          \* every model invocation of the run: site and guard layers
    routerExplanation,   \* state.routerExplanation
    documents,           \* state.documents
    responses,           \* contents of the responses of the branch's answering model
    retrieved,           \* what the branch node asked of the store and what it got
    \* ---- one call of the schema-repair guard
    gMaxRetries,         \* maxRetries
    gInput,              \* the input the caller passed
    currentInput,        \* currentInput
    attempts,            \* attempts
    gCalls,              \* what the wrapped runnable was invoked with and returned
    gStatus,             \* "running" | "returned" | "GuardrailError" | "Unreachable"
    gResult,             \* the value returned
    \* ---- one invocation of a retrieval tool of tools.ts
    tTool,               \* the tool invoked
    tArgs,               \* its (schema-valid) arguments
    tStatus,             \* "ready" | "done"
    tResult,             \* what func did: the string returned, or the throw
    \* ---- one call of a runnable wrapped by withGuardrails
    wInput,              \* the input the caller passed
    wStatus,             \* "ready" | "returned" | "thrown"
    wOutput,             \* what the wrapped runnable returned
    wResult,             \* what the caller received
    wCalls,              \* invocations of the wrapped runnable
    \* ---- one request to the chat endpoint (POST)
    pBody,               \* the request body
    pState,              \* "received" | "running" | "responded"
    pResponse,           \* the response: status and JSON body
    \* ---- one call of resolveSearchIntent
    rQuery,              \* query
    rProvided,           \* providedIntent
    rStatus,             \* "ready" | "returned" | "thrown"
    rResult,             \* {intent, confidence}
    rCalls,              \* what cheapModel.invoke did, once per invocation
    \* ---- one call of applyIntentFilterToItems
    fQuery,              \* query
    fProvided,           \* providedIntent
    fItems,              \* items
    fStatus,             \* "ready" | "returned" | "thrown"
    fReply,              \* what the filter's model call did, when it was made
    fKeep,               \* intentFilter.keepIndices
    fResult,             \* the value returned
    fCalls,              \* the model calls made, in order
    \* ---- one call of detectTimeRanges
    trStore,             \* the store's iso_date values: none, or the earliest and the latest
    trStatus,            \* "ready" | "returned" | "thrown"
    trReply,             \* what the time extraction's model call did
    trSource,            \* "extracted" | "midpoint"
    trRanges,            \* {earlier, later}
    \* ---- calls of the Cluster Detector over one store, model and configuration
    cdModel,             \* what extractClusterHint's model call does for this query and history
    cdStore,             \* the store: clusters with documents, lookup failure, top hit of the search
    cdConfig,            \* the environment variables: "ok" | "missing"
    cdMinScore,          \* minSimilarityScore
    cachedClient,        \* cachedClient is set
    vectorStorePromise,  \* "null" | "resolved" | "rejected"
    cdResults,           \* the outcome of each call, in order
    \* ---- the Chat component in one browser tab
    chatMessages,        \* messages (state of the component)
    chatInput,           \* input
    isLoading,           \* isLoading
    handleSubmit,        \* what the memoised handleSubmit closes over
    pending,             \* a request is awaiting its response
    requests,            \* the bodies of the requests sent, each with the transcript at that time
    transcript,          \* the messages shown since the page was loaded
    \* ---- concurrent runs in one server process, each detecting its cluster
    runPc,               \* where each run is: "ready" | "hinted" | "verifying" | "awaiting" | "done"
    runConfig,           \* the configuration each run found when it asked for the vector store
    runOutcome,          \* what each run's cluster detection gave
    \* ---- one invocation of get_top_performers over a store of rows
    tpArgs,              \* its (schema-valid) arguments: cluster, query, limit
    tpEnv,               \* the store's rows and what the tool's dependencies do
    tpStatus,            \* "ready" | "done"
    tpResult,            \* what the invocation gave: payload, results, lookups made
    \* ---- one invocation of analyze_content_types
    ctEnv,               \* what precedes the classification: "error" | "empty" | "filtered_out" | "rows"
    ctReply,             \* what the classification call gives
    ctStatus,            \* "ready" | "done"
    ctCalls,             \* classification calls made
    ctResult,            \* what the invocation gave
    \* ---- one call of getFilteredDocsAndContext
    dQuery,              \* query
    dDocs,               \* docs
    dExtract,            \* what the strict extractor's model call gave
    dStatus,             \* "ready" | "returned" | "thrown"
    dResult,             \* the value returned, the functions invoked and the model calls made
    \* ---- concurrent callers of getVectorStore, and resets of its cache
    envReady,            \* the required environment variables are set
    heldPromise,         \* vectorStorePromise: the promise held (0 when null)
    promises,            \* the promises createVectorStore has returned: when created, and their state
    resets,              \* calls of resetVectorStoreCache so far
    callerPc,            \* where each caller is: "ready" | "awaiting" | "done"
    callerGot            \* what each caller received: after which reset, which promise, its outcome
graphVars == <<pc, conversationHistory, intent, messages, answer, responseType,
               executed, modelLog, toolLog, modelCalls, routerExplanation, documents,
               responses, retrieved>>
guardVars == <<gMaxRetries, gInput, currentInput, attempts, gCalls, gStatus, gResult>>
toolVars == <<tTool, tArgs, tStatus, tResult>>
plainVars == <<wInput, wStatus, wOutput, wResult, wCalls>>
postVars == <<pBody, pState, pResponse>>
resolveVars == <<rQuery, rProvided, rStatus, rResult, rCalls>>
filterVars == <<fQuery, fProvided, fItems, fStatus, fReply, fKeep, fResult, fCalls>>
timeVars == <<trStore, trStatus, trReply, trSource, trRanges>>
clusterVars == <<cdModel, cdStore, cdConfig, cdMinScore, cachedClient, vectorStorePromise, cdResults>>
chatVars == <<chatMessages, chatInput, isLoading, handleSubmit, pending, requests, transcript>>
runsVars == <<runPc, runConfig, runOutcome>>
topVars == <<tpArgs, tpEnv, tpStatus, tpResult>>
typesVars == <<ctEnv, ctReply, ctStatus, ctCalls, ctResult>>
docsVars == <<dQuery, dDocs, dExtract, dStatus, dResult>>
cacheVars == <<envReady, heldPromise, promises, resets, callerPc, callerGot>>
vars == <<graphVars, guardVars, toolVars, plainVars, postVars, resolveVars, filterVars, timeVars, clusterVars, chatVars, runsVars, topVars, typesVars, docsVars, cacheVars>>
\* what an action of one component leaves alone
nonGraphVars == <<guardVars, toolVars, plainVars, postVars, resolveVars, filterVars, timeVars, clusterVars, chatVars, runsVars, topVars, typesVars, docsVars, cacheVars>>
nonGuardVars == <<graphVars, toolVars, plainVars, postVars, resolveVars, filterVars, timeVars, clusterVars, chatVars, runsVars, topVars, typesVars, docsVars, cacheVars>>
nonToolVars == <<graphVars, guardVars, plainVars, postVars, resolveVars, filterVars, timeVars, clusterVars, chatVars, runsVars, topVars, typesVars, docsVars, cacheVars>>
nonPlainVars == <<graphVars, guardVars, toolVars, postVars, resolveVars, filterVars, timeVars, clusterVars, chatVars, runsVars, topVars, typesVars, docsVars, cacheVars>>
nonRunVars == <<guardVars, toolVars, plainVars, resolveVars, filterVars, timeVars, clusterVars, chatVars, runsVars, topVars, typesVars, docsVars, cacheVars>>
nonResolveVars == <<graphVars, guardVars, toolVars, plainVars, postVars, filterVars, timeVars, clusterVars, chatVars, runsVars, topVars, typesVars, docsVars, cacheVars>>
nonFilterVars == <<graphVars, guardVars, toolVars, plainVars, postVars, resolveVars, timeVars, clusterVars, chatVars, runsVars, topVars, typesVars, docsVars, cacheVars>>
nonTimeVars == <<graphVars, guardVars, toolVars, plainVars, postVars, resolveVars, filterVars, clusterVars, chatVars, runsVars, topVars, typesVars, docsVars, cacheVars>>
nonClusterVars == <<graphVars, guardVars, toolVars, plainVars, postVars, resolveVars, filterVars, timeVars, chatVars, runsVars, topVars, typesVars, docsVars, cacheVars>>
nonChatVars == <<graphVars, guardVars, toolVars, plainVars, postVars, resolveVars, filterVars, timeVars, clusterVars, runsVars, topVars, typesVars, docsVars, cacheVars>>
\* (the runs act on the cached client and vector store of clusterVars)
nonRunsVars == <<graphVars, guardVars, toolVars, plainVars, postVars, resolveVars, filterVars, timeVars, chatVars, topVars, typesVars, docsVars, cacheVars>>
nonTopVars == <<graphVars, guardVars, toolVars, plainVars, postVars, resolveVars, filterVars, timeVars, clusterVars, chatVars, runsVars, typesVars, docsVars, cacheVars>>
nonTypesVars == <<graphVars, guardVars, toolVars, plainVars, postVars, resolveVars, filterVars, timeVars, clusterVars, chatVars, runsVars, topVars, docsVars, cacheVars>>
nonDocsVars == <<graphVars, guardVars, toolVars, plainVars, postVars, resolveVars, filterVars, timeVars, clusterVars, chatVars, runsVars, topVars, typesVars, cacheVars>>
nonCacheVars == <<graphVars, guardVars, toolVars, plainVars, postVars, resolveVars, filterVars, timeVars, clusterVars, chatVars, runsVars, topVars, typesVars, docsVars>>

(***************************************************************************)
(* Bounds of the model.                                                    *)
(***************************************************************************)
MaxModelCalls == 3      \* invocations of modelWithTools explored in one run
MaxToolCalls == 2       \* tool calls explored in one run (over all responses)
MaxRetriesBound == 3    \* largest retry budget explored
MaxIntentLen == 3       \* longest providedIntent explored, in tokens
MaxItems == 2           \* longest item list given to the relevance filter
MaxKeepLen == 2         \* longest keep list in a reply of the filter's model
MaxDay == 3             \* days explored: day 0 is 2000-01-01, day MaxDay is today
MaxDetectorCalls == 2   \* calls of the Cluster Detector explored over one store
MaxChatRequests == 3    \* requests the Chat component sends, over all reloads
MaxRuns == 2            \* concurrent runs in one server process
MaxRows == 101          \* most rows a store query of a branch node matches
MaxTopRows == 2         \* most rows in a store searched by get_top_performers
MaxTopLimit == 2        \* largest limit given to get_top_performers
MaxAnalyses == 3        \* most analyses in a reply of the classification call
MaxCallers == 3         \* concurrent callers of getVectorStore
MaxResets == 2          \* calls of resetVectorStoreCache explored

Undefined == "undefined"    \* JavaScript's undefined / null
EmptyText == <<>>           \* the empty string

(***************************************************************************)
(* Messages.  content is a sequence of tokens.                             *)
(***************************************************************************)
HumanMessage(c) ==
    [type |-> "human", content |-> c, tool_calls |-> <<>>, tool_call_id |-> Undefined]
AIMessage(c, calls) ==
    [type |-> "ai", content |-> c, tool_calls |-> calls, tool_call_id |-> Undefined]
ToolMessage(c, id) ==
    [type |-> "tool", content |-> c, tool_calls |-> <<>>, tool_call_id |-> id]

STANDARD_AGENT_PROMPT == <<"STANDARD_AGENT_PROMPT">>
Query == <<"query">>

QueryIntent == {"STANDARD", "COMPARISON", "STRATEGY"}
\* every value state.intent can be tested with, the enum's and others
IntentValues == QueryIntent \cup {Undefined, "OTHER"}

Histories ==
    { <<>>,
      << [role |-> "user", content |-> <<"earlier question">>],
         [role |-> "assistant", content |-> <<"earlier answer">>] >> }

RegisteredTools == {"search_by_query", "get_top_performers", "get_serp_features",
                    "get_cluster_data", "analyze_content_types"}
ToolNames == RegisteredTools \cup {"no_such_tool"}
CallIds == {Undefined, "call_a", "call_b"}
\* the tool calls explored: every tool under one id, and one tool under every id
\* (no id, and two ids, so that a response can repeat an id or omit it)
ToolCalls ==
    { c \in [name : ToolNames, id : CallIds] :
        c.id = "call_a" \/ c.name = "search_by_query" }

SeqsUpTo(S, n) == UNION { [1..k -> S] : k \in 0..n }

\* the text of a response that carries no tool call
AnswerContents == {EmptyText, <<"answer">>}

\* responses of the tool-bound model with at most n tool calls
Responses(n) ==
    { AIMessage(c, <<>>) : c \in AnswerContents }
      \cup { AIMessage(EmptyText, calls) : calls \in SeqsUpTo(ToolCalls, n) \ {<<>>} }

(***************************************************************************)
(* routeByIntent (conditional edge after the router).                      *)
(***************************************************************************)
routeByIntent(i) ==
    CASE i = "STRATEGY" -> "strategy"
      [] i = "COMPARISON" -> "comparison"
      [] OTHER -> "standard_agent"

(***************************************************************************)
(* shouldContinueStandard (conditional edge after standard_agent and       *)
(* standard_response).  A string is truthy iff it is not empty.            *)
(***************************************************************************)
shouldContinueStandard(msgs, ans) ==
    LET lastMessage == msgs[Len(msgs)] IN
    IF /\ (lastMessage.type = "ai" \/ lastMessage.tool_calls # <<>>)
       /\ Len(lastMessage.tool_calls) > 0
    THEN "tools"
    ELSE IF ans # EmptyText THEN "end" ELSE "respond"

(***************************************************************************)
(* The edges of the workflow: the node that runs after `node`.             *)
(***************************************************************************)
workflowMutStrategyFallsThrough(node, i, msgs, ans) ==
    CASE node = "START" -> "router"
      [] node = "router" -> routeByIntent(i)
      [] node \in {"standard_agent", "standard_response"} ->
            (CASE shouldContinueStandard(msgs, ans) = "tools" -> "tools"
               [] shouldContinueStandard(msgs, ans) = "respond" -> "standard_response"
               [] OTHER -> "END")
      [] node = "tools" -> "standard_response"
      [] node = "strategy" -> "comparison"
      [] OTHER -> "END"

workflow(node, i, msgs, ans) ==
    CASE node = "START" -> "router"
      [] node = "router" -> routeByIntent(i)
      [] node \in {"standard_agent", "standard_response"} ->
            (CASE shouldContinueStandard(msgs, ans) = "tools" -> "tools"
               [] shouldContinueStandard(msgs, ans) = "respond" -> "standard_response"
               [] OTHER -> "END")
      [] node = "tools" -> "standard_response"
      [] node = "strategy" -> "END"
      [] node = "comparison" -> "END"

(***************************************************************************)
(* The retrieval tools the graph dispatches to (page.tsx 122-425), seen    *)
(* from toolExecutorNode: what tool.invoke does under each behaviour of    *)
(* the environment.                                                        *)
(*   "ok"          the store / vector search / model answer                *)
(*   "store_error" the store query resolves with {error}                   *)
(*   "throws"      the call rejects: schema-invalid args, getVectorStore   *)
(*                 or getSupabaseClient failing, the vector search or the  *)
(*                 classification model call failing                       *)
(* search_by_query makes no store query: its only failure is a throw.      *)
(***************************************************************************)
ToolEnv(name) ==
    IF name = "search_by_query" THEN {"ok", "throws"}
    ELSE IF name \in RegisteredTools THEN {"ok", "store_error", "throws"}
    ELSE {"ok"}

\* tool.invoke(args): [thrown, content]
InvokeTool(name, env) ==
    CASE env = "throws" -> [thrown |-> TRUE, content |-> <<"tool failure", name>>]
      [] env = "store_error" -> [thrown |-> FALSE, content |-> <<"{error}", name>>]
      [] OTHER -> [thrown |-> FALSE, content |-> <<"result", name>>]

\* tool_call_id: toolCall.id || ""
ToolCallIdMutDropped(id) == ""
ToolCallId(id) == IF id = Undefined \/ id = "" THEN "" ELSE id

(***************************************************************************)
(* One iteration of toolExecutorNode's loop over the tool calls: the       *)
(* switch on the tool's name inside try/catch.                             *)
(*  message: the ToolMessage pushed (pushed = FALSE: none); invoked: a tool *)
(*  was invoked; rethrown: an error left the loop body.                    *)
(***************************************************************************)
ExecuteToolCallMutUncaught(toolCall, env) ==
    IF toolCall.name \in RegisteredTools
    THEN LET r == InvokeTool(toolCall.name, env) IN
         IF r.thrown
         THEN [pushed |-> FALSE, rethrown |-> TRUE, invoked |-> TRUE,
               message |-> ToolMessage(EmptyText, "")]
         ELSE [pushed |-> TRUE, rethrown |-> FALSE, invoked |-> TRUE,
               message |-> ToolMessage(r.content, ToolCallId(toolCall.id))]
    ELSE [pushed |-> TRUE, rethrown |-> FALSE, invoked |-> FALSE,
          message |-> ToolMessage(<<"{error}", "Unknown tool", toolCall.name>>,
                                  ToolCallId(toolCall.id))]

ExecuteToolCall(toolCall, env) ==
    IF toolCall.name \in RegisteredTools
    THEN LET r == InvokeTool(toolCall.name, env) IN
         IF r.thrown
         THEN \* catch (error): the error message becomes the result
              [pushed |-> TRUE, rethrown |-> FALSE, invoked |-> TRUE,
               message |-> ToolMessage(<<"Error executing tool">> \o r.content,
                                       ToolCallId(toolCall.id))]
         ELSE [pushed |-> TRUE, rethrown |-> FALSE, invoked |-> TRUE,
               message |-> ToolMessage(r.content, ToolCallId(toolCall.id))]
    ELSE \* default: the tool is not registered
         [pushed |-> TRUE, rethrown |-> FALSE, invoked |-> FALSE,
          message |-> ToolMessage(<<"{error}", "Unknown tool", toolCall.name>>,
                                  ToolCallId(toolCall.id))]

(***************************************************************************)
(* toolExecutorNode: the loop `for (const toolCall of toolCalls)`, from    *)
(* call i on.  acc = [toolMessages, log, thrown]; log records every        *)
(* iteration: the call, what the environment did, whether a tool ran.      *)
(***************************************************************************)
RECURSIVE ToolLoop(_, _, _, _)
ToolLoop(toolCalls, env, i, acc) ==
    IF i > Len(toolCalls) \/ acc.thrown THEN acc
    ELSE LET r == ExecuteToolCall(toolCalls[i], env[i]) IN
         ToolLoop(toolCalls, env, i + 1,
                  [toolMessages |-> IF r.pushed THEN Append(acc.toolMessages, r.message)
                                    ELSE acc.toolMessages,
                   log |-> Append(acc.log, [call |-> toolCalls[i], env |-> env[i],
                                            invoked |-> r.invoked]),
                   thrown |-> r.rethrown])

toolExecutorNodeMutReversed(msgs, env) ==
    LET lastMessage == msgs[Len(msgs)]
        r == ToolLoop(lastMessage.tool_calls, env, 1,
                      [toolMessages |-> <<>>, log |-> <<>>, thrown |-> FALSE])
        n == Len(r.toolMessages)
    IN  [r EXCEPT !.toolMessages = [k \in 1..n |-> r.toolMessages[n + 1 - k]]]

toolExecutorNode(msgs, env) ==
    LET lastMessage == msgs[Len(msgs)]
        toolCalls == lastMessage.tool_calls
    IN  ToolLoop(toolCalls, env, 1,
                 [toolMessages |-> <<>>, log |-> <<>>, thrown |-> FALSE])

\* the environments toolExecutorNode can meet for a list of tool calls
ToolEnvs(toolCalls) ==
    { e \in [1..Len(toolCalls) -> {"ok", "store_error", "throws"}] :
        \A k \in 1..Len(toolCalls) : e[k] \in ToolEnv(toolCalls[k].name) }

(***************************************************************************)
(* standardAgentNode's initial message list: system instructions, the      *)
(* history mapped to role-tagged messages, the current query.              *)
(***************************************************************************)
HistoryMessages(history) ==
    [k \in 1..Len(history) |->
        IF history[k].role = "user" THEN HumanMessage(history[k].content)
        ELSE AIMessage(history[k].content, <<>>)]

InitialMessages(history) ==
    <<HumanMessage(STANDARD_AGENT_PROMPT)>> \o HistoryMessages(history)
        \o <<HumanMessage(<<"Current question: ">> \o Query)>>

\* SEOGraphState.messages reducer: (prev, next) => [...prev, ...next]
messagesReducer(prev, next) == prev \o next

\* tool calls issued so far in the run: each was answered by one ToolMessage
ToolCallsSoFar == Cardinality({k \in 1..Len(messages) : messages[k].type = "tool"})

\* what the tool-bound model can answer at this point of the exploration
ModelResponses == Responses(MaxToolCalls - ToolCallsSoFar)

\* a response record for an invocation that rejected
NoResponse == AIMessage(EmptyText, <<>>)

(***************************************************************************)
(* standardAgentNode: the messages the model is invoked with, and the      *)
(* state update for its response.                                          *)
(***************************************************************************)
standardAgentInput(history) == InitialMessages(history)

standardAgentNode(msgs, response) ==
    [messages |-> messagesReducer(msgs, <<response>>)]

(***************************************************************************)
(* standardResponseNode: invoked with state.messages; the update sets the  *)
(* answer only when the response carries no tool call.                     *)
(***************************************************************************)
standardResponseInput(msgs) == msgs

standardResponseNode(msgs, ans, rtype, response) ==
    IF Len(response.tool_calls) > 0
    THEN [messages |-> messagesReducer(msgs, <<response>>),
          answer |-> ans, responseType |-> rtype]
    ELSE [messages |-> messagesReducer(msgs, <<response>>),
          answer |-> response.content, responseType |-> "standard"]

(***************************************************************************)
(* The model-call guard (guardrails.ts).                                   *)
(* A text is abstracted to what the guard and the parser can see of it:    *)
(*   parses  it parses against the schema                                  *)
(*   secret  it contains one of the sensitive keywords                     *)
(*   value   what it parses to                                             *)
(***************************************************************************)
Texts ==
    { [parses |-> TRUE, secret |-> FALSE, value |-> v] : v \in {"v1", "v2"} }
      \cup { [parses |-> TRUE, secret |-> TRUE, value |-> "v1"] }
      \cup { [parses |-> FALSE, secret |-> s, value |-> "none"] : s \in BOOLEAN }

REDACTED == [parses |-> FALSE, secret |-> FALSE, value |-> "[REDACTED]"]

\* what runnable.invoke can do: reject, or return a string or a message
RunnableOutputs ==
    { [thrown |-> TRUE, shape |-> "none", text |-> REDACTED] }
      \cup { [thrown |-> FALSE, shape |-> sh, text |-> t] :
                sh \in {"string", "message"}, t \in Texts }

\* extractTextFromOutput: the string itself, or the message's content
extractTextFromOutput(output) == output.text

\* outputGuardrail on a string: the whole text is replaced when a keyword occurs
outputGuardrailMutSkipped(text) == text
outputGuardrail(text) == IF text.secret THEN REDACTED ELSE text

\* parser.parse
parserParse(text) ==
    IF text.parses THEN [ok |-> TRUE, value |-> text.value]
    ELSE [ok |-> FALSE, value |-> "none"]

\* the inputs a caller passes: a string, a list of messages, another object
GuardInputs == { [kind |-> k, body |-> <<"input">>] : k \in {"string", "list", "object"} }

\* Auto-repair: the next attempt's input
repairInputMutReplaces(input, errorMessage) == [input EXCEPT !.body = <<errorMessage>>]
repairInput(input, errorMessage) ==
    CASE input.kind = "string" ->
            [input EXCEPT !.body = Append(@, errorMessage)]
      [] input.kind = "list" ->
            [input EXCEPT !.body = @ \o <<"AIMessage(...)", errorMessage>>]
      [] OTHER -> input

\* while (attempts <= maxRetries)
loopCondition(a, maxRetries) == a <= maxRetries

\* if (attempts > maxRetries) throw new GuardrailError
budgetSpentMutOffByOne(a, maxRetries) == a >= maxRetries
budgetSpent(a, maxRetries) == a > maxRetries

\* attempts++ in the catch block, whatever was caught
countFailureMutParseOnly(a, errorMessage) ==
    IF errorMessage = "model error" THEN a ELSE a + 1
countFailure(a, errorMessage) == a + 1

(***************************************************************************)
(* One turn of withStructuredOutputGuards' loop, the runnable answering    *)
(* `output`: the loop test, the try block, the catch block.                *)
(***************************************************************************)
guardIteration(g, output) ==
    IF ~loopCondition(g.attempts, g.maxRetries)
    THEN [g EXCEPT !.status = "Unreachable"]
    ELSE
      LET called == [g EXCEPT !.calls = Append(@, [input |-> g.currentInput,
                                                    output |-> output])]
          parsed == IF output.thrown THEN [ok |-> FALSE, value |-> "none"]
                    ELSE parserParse(outputGuardrail(extractTextFromOutput(output)))
          errorMessage == IF output.thrown THEN "model error" ELSE "parse error"
          a == countFailure(g.attempts, errorMessage)
      IN  IF parsed.ok
          THEN [called EXCEPT !.status = "returned", !.result = parsed.value]
          ELSE IF budgetSpent(a, g.maxRetries)
               THEN [called EXCEPT !.attempts = a, !.status = "GuardrailError"]
               ELSE [called EXCEPT !.attempts = a,
                                   !.currentInput = repairInput(@, errorMessage)]

GuardIdle ==
    /\ gMaxRetries = 0
    /\ gInput = [kind |-> "string", body |-> <<>>]
    /\ currentInput = [kind |-> "string", body |-> <<>>]
    /\ attempts = 0
    /\ gCalls = <<>>
    /\ gStatus = "idle"
    /\ gResult = "none"

RunIdle ==
    /\ pc = "IDLE"
    /\ conversationHistory = <<>>
    /\ intent = Undefined
    /\ messages = <<>>
    /\ answer = EmptyText
    /\ responseType = ""
    /\ executed = <<>>
    /\ modelLog = <<>>
    /\ toolLog = <<>>
    /\ modelCalls = <<>>
    /\ routerExplanation = EmptyText
    /\ documents = <<>>
    /\ responses = <<>>
    /\ retrieved = <<>>

\* no tool of tools.ts is being invoked
ToolIdle ==
    /\ tTool = "none"
    /\ tArgs = [cluster |-> Undefined, query |-> Undefined, intent |-> Undefined]
    /\ tStatus = "idle"
    /\ tResult = [thrown |-> FALSE, kind |-> "none", failure |-> "none"]

(***************************************************************************)
(* The output safety guard on every shape of output (guardrails.ts 14-33), *)
(* and withGuardrails (36-48).  An output is abstracted to                 *)
(*   shape          "string" | "AIMessage" | "message" (a message of       *)
(*                  another class) | "object"                              *)
(*   content        "text" (a non-empty string) | "empty" | "blocks" (an   *)
(*                  array of content blocks) | "value" (another truthy     *)
(*                  value) | "missing"                                     *)
(*   contentSecret  the content's text holds a sensitive keyword           *)
(*   tool_calls     "none" | "clean" | "secret" (the arguments hold one)   *)
(*   fields         the other fields: "none" | "clean" | "secret"          *)
(***************************************************************************)
ModelOutputs ==
    { o \in [shape : {"string", "AIMessage", "message", "object"},
             content : {"text", "empty", "blocks", "value", "missing"},
             contentSecret : BOOLEAN,
             tool_calls : {"none", "clean", "secret"},
             fields : {"none", "clean", "secret"}] :
        /\ (o.content \in {"empty", "missing"}) => ~o.contentSecret
        /\ (o.shape = "string") =>
              o.content \in {"text", "empty"} /\ o.tool_calls = "none" /\ o.fields = "none"
        /\ (o.shape \in {"AIMessage", "message"}) =>
              o.content \in {"text", "empty", "blocks"} /\ o.fields # "none"
        /\ (o.shape = "object") =>
              o.content # "blocks" /\ o.tool_calls = "none" /\ o.fields # "none" }

NoOutput ==
    [shape |-> "none", content |-> "missing", contentSecret |-> FALSE,
     tool_calls |-> "none", fields |-> "none"]

\* the parts of an output that carry data of the model
PartsOf(o) ==
    (IF o.content \in {"text", "blocks", "value"} THEN {"content"} ELSE {})
      \cup (IF o.tool_calls # "none" THEN {"tool_calls"} ELSE {})
      \cup (IF o.fields # "none" THEN {"fields"} ELSE {})

SecretPartsOf(o) ==
    (IF o.contentSecret THEN {"content"} ELSE {})
      \cup (IF o.tool_calls = "secret" THEN {"tool_calls"} ELSE {})
      \cup (IF o.fields = "secret" THEN {"fields"} ELSE {})

\* extractTextFromOutput and the test sensitiveKeywords.some(k => textContent.includes(k)):
\* [thrown, found].  A string is returned as it is; a truthy content is returned
\* whatever its type (Array.prototype.includes compares whole elements, another
\* value has no includes); otherwise the output is serialised.
keywordFound(o) ==
    IF o.shape = "string" THEN [thrown |-> FALSE, found |-> o.contentSecret]
    ELSE CASE o.content = "text" -> [thrown |-> FALSE, found |-> o.contentSecret]
           [] o.content = "blocks" -> [thrown |-> FALSE, found |-> FALSE]
           [] o.content = "value" -> [thrown |-> TRUE, found |-> FALSE]
           [] OTHER -> [thrown |-> FALSE, found |-> SecretPartsOf(o) # {}]

\* outputGuardrail: [thrown, redacted, shape, retained]; retained is the set of
\* parts of the original output present in the value returned
guardedOutput(o) ==
    LET k == keywordFound(o) IN
    IF k.thrown
    THEN [thrown |-> TRUE, redacted |-> FALSE, shape |-> "none", retained |-> {}]
    ELSE IF k.found
    THEN IF o.shape = "AIMessage"
         THEN \* new AIMessage({ ...output, content: "[REDACTED]" })
              [thrown |-> FALSE, redacted |-> TRUE, shape |-> "AIMessage",
               retained |-> PartsOf(o) \ {"content"}]
         ELSE \* "[REDACTED]"
              [thrown |-> FALSE, redacted |-> TRUE, shape |-> "string", retained |-> {}]
    ELSE [thrown |-> FALSE, redacted |-> FALSE, shape |-> o.shape,
          retained |-> PartsOf(o)]

NoResult == [thrown |-> FALSE, redacted |-> FALSE, shape |-> "none", retained |-> {}]

(***************************************************************************)
(* The chat endpoint (POST).  A request body is abstracted to              *)
(*   json     "invalid" (request.json() rejects) | "null" | "scalar" (a    *)
(*            JSON number, string or boolean) | "object"                   *)
(*   query    the query member: "missing" | "null" | "zero" (0 or false) | *)
(*            "number" | "array" | "empty" | "blank" | "padded" (text with *)
(*            surrounding whitespace)                                      *)
(*   history  the history member: undefined or a list of messages          *)
(***************************************************************************)
QueryKinds == {"missing", "null", "zero", "number", "array", "empty", "blank", "padded"}

PostBodies ==
    { b \in [json : {"invalid", "null", "scalar", "object"}, query : QueryKinds,
             history : {Undefined, "messages"}] :
        /\ (b.json # "object") => b.query = "missing" /\ b.history = Undefined
        /\ (b.query = "padded") => b.history = Undefined }

\* const body = await request.json(); const { query, history } = body: rejects for
\* a body that is not JSON, throws for null
bodyThrows(b) == b.json \in {"invalid", "null"}

\* !query || typeof query !== "string" || query.trim().length === 0
queryRejected(b) ==
    \/ b.query \in {"missing", "null", "zero", "empty"}
    \/ b.query \in {"number", "array"}
    \/ b.query = "blank"

NoData == [type |-> "", answer |-> EmptyText, cluster |-> Undefined, documents |-> <<>>,
           intent |-> Undefined, explanation |-> EmptyText]

\* NextResponse.json(body, {status}): status 200 when none is given
NextResponseJson(success, hasData, data, hasError, status) ==
    [status |-> status, success |-> success, hasData |-> hasData, data |-> data,
     hasError |-> hasError]

NoResponseYet == NextResponseJson(FALSE, FALSE, NoData, FALSE, 0)

\* the three responses of POST
postRejected == NextResponseJson(FALSE, FALSE, NoData, TRUE, 400)
postSucceeded(result) == NextResponseJson(TRUE, TRUE, result, FALSE, 200)
postFailedMutBadRequest == NextResponseJson(FALSE, FALSE, NoData, TRUE, 400)
postFailed == NextResponseJson(FALSE, FALSE, NoData, TRUE, 500)

\* no request is being served
PostIdle ==
    /\ pBody = [json |-> "object", query |-> "missing", history |-> Undefined]
    /\ pState = "idle"
    /\ pResponse = NoResponseYet

(***************************************************************************)
(* Strings of the intent resolver.  A string is a sequence of tokens: " "  *)
(* is white space, "x" other text, "Info" and "UNKNOWN" are "info" and     *)
(* "unknown" in another casing; an optional string is [present, text].     *)
(***************************************************************************)
IntentTokens == {" ", "x", "Info", "UNKNOWN", "info", "nav", "trans", "comm",
                 "investig", "local", "unknown"}

Absent == [present |-> FALSE, text |-> <<>>]
Present(text) == [present |-> TRUE, text |-> text]

ProvidedIntents ==
    {Absent} \cup { Present(t) : t \in SeqsUpTo(IntentTokens, MaxIntentLen) }

ResolverQueries == {Absent, Present(<<>>), Present(<<" ">>), Present(<<"q">>)}

RECURSIVE trimStart(_)
trimStart(str) ==
    IF str # <<>> /\ Head(str) = " " THEN trimStart(Tail(str)) ELSE str

RECURSIVE trimEnd(_)
trimEnd(str) ==
    IF str # <<>> /\ str[Len(str)] = " " THEN trimEnd(SubSeq(str, 1, Len(str) - 1))
    ELSE str

trim(str) == trimEnd(trimStart(str))

toLowerCase(str) ==
    [k \in 1..Len(str) |->
        CASE str[k] = "Info" -> "info"
          [] str[k] = "UNKNOWN" -> "unknown"
          [] OTHER -> str[k]]

startsWith(str, word) == str # <<>> /\ str[1] = word
includes(str, word) == \E k \in 1..Len(str) : str[k] = word

\* normalizeSearchIntent: the intent, or "null"
normalizeSearchIntentMutNoTrim(provided) ==
    IF ~provided.present \/ provided.text = <<>> THEN "null"
    ELSE LET normalized == toLowerCase(provided.text) IN
         CASE startsWith(normalized, "info") -> "informational"
           [] startsWith(normalized, "nav") -> "navigational"
           [] startsWith(normalized, "trans") -> "transactional"
           [] startsWith(normalized, "comm") \/ includes(normalized, "investig") ->
                 "transactional"
           [] startsWith(normalized, "local") -> "transactional"
           [] startsWith(normalized, "unknown") -> "unknown"
           [] OTHER -> "null"

normalizeSearchIntent(provided) ==
    IF ~provided.present \/ provided.text = <<>> THEN "null"
    ELSE LET normalized == toLowerCase(trim(provided.text)) IN
         CASE startsWith(normalized, "info") -> "informational"
           [] startsWith(normalized, "nav") -> "navigational"
           [] startsWith(normalized, "trans") -> "transactional"
           [] startsWith(normalized, "comm") \/ includes(normalized, "investig") ->
                 "transactional"
           [] startsWith(normalized, "local") -> "transactional"
           [] startsWith(normalized, "unknown") -> "unknown"
           [] OTHER -> "null"

\* what cheapModel.invoke followed by intentParser.parse can do
SearchIntents == {"informational", "navigational", "transactional", "unknown"}
Confidences == {"low", "medium", "high"}
IntentModelOutcomes ==
    { [kind |-> "rejects", intent |-> "unknown", confidence |-> "low"],
      [kind |-> "unparsable", intent |-> "unknown", confidence |-> "low"] }
      \cup { [kind |-> "parsed", intent |-> i, confidence |-> c] :
                i \in SearchIntents, c \in Confidences }

\* detectSearchIntent: [thrown, intent, confidence, calls]
detectSearchIntentMutUncaught(outcome) ==
    [thrown |-> outcome.kind # "parsed", intent |-> outcome.intent,
     confidence |-> outcome.confidence, calls |-> <<outcome.kind>>]

detectSearchIntent(outcome) ==
    IF outcome.kind = "parsed"
    THEN [thrown |-> FALSE, intent |-> outcome.intent,
          confidence |-> outcome.confidence, calls |-> <<outcome.kind>>]
    ELSE \* catch
         [thrown |-> FALSE, intent |-> "unknown", confidence |-> "low",
          calls |-> <<outcome.kind>>]

\* resolveSearchIntent
resolveSearchIntent(query, provided, outcome) ==
    LET normalized == normalizeSearchIntent(provided) IN
    IF normalized # "null"
    THEN [thrown |-> FALSE, intent |-> normalized, confidence |-> "high", calls |-> <<>>]
    ELSE IF ~query.present \/ query.text = <<>> \/ Len(trim(query.text)) = 0
    THEN [thrown |-> FALSE, intent |-> "unknown", confidence |-> "low", calls |-> <<>>]
    ELSE detectSearchIntent(outcome)

(***************************************************************************)
(* The relevance filter.  A number the model returns is a count of halves, *)
(* so that 3 is 1.5 and 4 is 2; an item is known by its SERP position.     *)
(***************************************************************************)
isInteger(index) == index % 2 = 0
Whole(k) == 2 * k

\* the numbers a parsed reply can hold: -1, 0, 0.5, 1, 1.5, 2, ..., MaxItems + 1
FilterNumbers == {Whole(0) - 2, 0, 1, 3} \cup { Whole(k) : k \in 1..(MaxItems + 1) }

FilterModelOutcomes ==
    { [kind |-> "rejects", keep |-> <<>>], [kind |-> "unparsable", keep |-> <<>>] }
      \cup { [kind |-> "parsed", keep |-> keep] :
                keep \in SeqsUpTo(FilterNumbers, MaxKeepLen) }

NullKeep == [null |-> TRUE, indices |-> {}]

\* filterItemsByIntent: [keepIndices, calls]
filterItemsByIntentMutNoGuard(query, searchIntent, n, outcome) ==
    IF outcome.kind = "parsed"
    THEN [keepIndices |->
             [null |-> FALSE,
              indices |-> { (outcome.keep[k] \div 2) - 1 : k \in
                              { j \in 1..Len(outcome.keep) :
                                  /\ isInteger(outcome.keep[j])
                                  /\ outcome.keep[j] >= Whole(1)
                                  /\ outcome.keep[j] <= Whole(n) } }],
          calls |-> <<"filter">>]
    ELSE [keepIndices |-> NullKeep, calls |-> <<"filter">>]

filterItemsByIntentMutEmptyOnFailure(query, searchIntent, n, outcome) ==
    IF ~query.present \/ query.text = <<>> \/ searchIntent = "unknown" \/ n = 0
    THEN [keepIndices |-> NullKeep, calls |-> <<>>]
    ELSE IF outcome.kind = "parsed"
    THEN [keepIndices |->
             [null |-> FALSE,
              indices |-> { (outcome.keep[k] \div 2) - 1 : k \in
                              { j \in 1..Len(outcome.keep) :
                                  /\ isInteger(outcome.keep[j])
                                  /\ outcome.keep[j] >= Whole(1)
                                  /\ outcome.keep[j] <= Whole(n) } }],
          calls |-> <<"filter">>]
    ELSE [keepIndices |-> [null |-> FALSE, indices |-> {}], calls |-> <<"filter">>]

filterItemsByIntentMutNoRangeCheck(query, searchIntent, n, outcome) ==
    IF ~query.present \/ query.text = <<>> \/ searchIntent = "unknown" \/ n = 0
    THEN [keepIndices |-> NullKeep, calls |-> <<>>]
    ELSE IF outcome.kind = "parsed"
    THEN [keepIndices |->
             [null |-> FALSE,
              indices |-> { (outcome.keep[k] \div 2) - 1 : k \in
                              { j \in 1..Len(outcome.keep) :
                                  isInteger(outcome.keep[j]) } }],
          calls |-> <<"filter">>]
    ELSE [keepIndices |-> NullKeep, calls |-> <<"filter">>]

filterItemsByIntent(query, searchIntent, n, outcome) ==
    IF ~query.present \/ query.text = <<>> \/ searchIntent = "unknown" \/ n = 0
    THEN [keepIndices |-> NullKeep, calls |-> <<>>]
    ELSE IF outcome.kind = "parsed"
    THEN [keepIndices |->
             [null |-> FALSE,
              indices |-> { (outcome.keep[k] \div 2) - 1 : k \in
                              { j \in 1..Len(outcome.keep) :
                                  /\ isInteger(outcome.keep[j])
                                  /\ outcome.keep[j] >= Whole(1)
                                  /\ outcome.keep[j] <= Whole(n) } }],
          calls |-> <<"filter">>]
    ELSE \* catch
         [keepIndices |-> NullKeep, calls |-> <<"filter">>]

\* items.filter((_, idx) => keepIndices.has(idx)), idx counted from 0
RECURSIVE filterByIndex(_, _, _)
filterByIndex(items, indices, idx) ==
    IF items = <<>> THEN <<>>
    ELSE (IF idx \in indices THEN <<Head(items)>> ELSE <<>>)
            \o filterByIndex(Tail(items), indices, idx + 1)

\* applyIntentFilterToItems
applyIntentFilterToItemsMutAlwaysApplied(query, provided, items, intentOutcome, filterOutcome) ==
    LET resolved == resolveSearchIntent(query, provided, intentOutcome)
        intentFilter == filterItemsByIntent(query, resolved.intent, Len(items), filterOutcome)
        filteredItems == filterByIndex(items, intentFilter.keepIndices.indices, 0)
    IN  [thrown |-> resolved.thrown,
         keepIndices |-> intentFilter.keepIndices,
         calls |-> resolved.calls \o intentFilter.calls,
         value |-> [resolvedIntent |-> [intent |-> resolved.intent,
                                        confidence |-> resolved.confidence],
                    filteredItems |-> filteredItems,
                    intentFilterApplied |-> ~intentFilter.keepIndices.null,
                    filteredOutCount |-> Len(items) - Len(filteredItems)]]

applyIntentFilterToItems(query, provided, items, intentOutcome, filterOutcome) ==
    LET resolved == resolveSearchIntent(query, provided, intentOutcome)
        intentFilter == filterItemsByIntent(query, resolved.intent, Len(items), filterOutcome)
        filteredItems == IF ~intentFilter.keepIndices.null
                         THEN filterByIndex(items, intentFilter.keepIndices.indices, 0)
                         ELSE items
    IN  [thrown |-> resolved.thrown,
         keepIndices |-> intentFilter.keepIndices,
         calls |-> resolved.calls \o intentFilter.calls,
         value |-> [resolvedIntent |-> [intent |-> resolved.intent,
                                        confidence |-> resolved.confidence],
                    filteredItems |-> filteredItems,
                    intentFilterApplied |-> ~intentFilter.keepIndices.null,
                    filteredOutCount |-> Len(items) - Len(filteredItems)]]

NoFilterResult ==
    [resolvedIntent |-> [intent |-> "unknown", confidence |-> "low"],
     filteredItems |-> <<>>, intentFilterApplied |-> FALSE, filteredOutCount |-> 0]

\* applyIntentFilterToItems is not being called
FilterIdle ==
    /\ fQuery = Absent
    /\ fProvided = Absent
    /\ fItems = <<>>
    /\ fStatus = "idle"
    /\ fReply = [kind |-> "rejects", keep |-> <<>>]
    /\ fKeep = NullKeep
    /\ fResult = NoFilterResult
    /\ fCalls = <<>>

(***************************************************************************)
(* Dates of detectTimeRanges.  An iso_date is a day number with, for a     *)
(* full timestamp, the hour of the day (UTC); a date-only string has none. *)
(***************************************************************************)
HoursPerDay == 24
DateOnly(day) == [day |-> day, full |-> FALSE, hour |-> 0]
Timestamp(day, hour) == [day |-> day, full |-> TRUE, hour |-> hour]

Days == 0..MaxDay
StoredHours == {10, 20}
IsoDates == { DateOnly(d) : d \in Days }
              \cup { Timestamp(d, h) : d \in Days, h \in StoredHours }

\* new Date(s).getTime(), in hours
getTime(date) == date.day * HoursPerDay + (IF date.full THEN date.hour ELSE 0)

\* new Date(t).toISOString().split("T")[0], t in half hours
toISODate(halfHours) == DateOnly(halfHours \div (2 * HoursPerDay))

\* a <= b as the store compares metadata->>iso_date: as text, so that a
\* date-only string precedes every timestamp of its day
textLte(a, b) ==
    \/ a.day < b.day
    \/ /\ a.day = b.day
       /\ \/ ~a.full
          \/ b.full /\ a.hour <= b.hour

\* the first row by iso_date ascending and descending; no row in an empty store
EmptyStore == [empty |-> TRUE, earliest |-> DateOnly(0), latest |-> DateOnly(0)]
StoreRanges ==
    {EmptyStore} \cup { [empty |-> FALSE, earliest |-> pair[1], latest |-> pair[2]] :
                           pair \in { p \in IsoDates \X IsoDates : textLte(p[1], p[2]) } }

Epoch2000 == DateOnly(0)        \* "2000-01-01"
Today == DateOnly(MaxDay)       \* new Date().toISOString().split("T")[0]

earliestInDb(store) == IF store.empty THEN Epoch2000 ELSE store.earliest
latestInDb(store) == IF store.empty THEN Today ELSE store.latest

\* what cheapModel.invoke followed by timeParser.parse can do
NoPeriod == [present |-> FALSE, start |-> DateOnly(0), end |-> DateOnly(0)]
Periods ==
    {NoPeriod} \cup { [present |-> TRUE, start |-> DateOnly(a), end |-> DateOnly(b)] :
                         a \in Days, b \in Days }
NoExtraction == [hasTimeReference |-> FALSE, earlierPeriod |-> NoPeriod,
                 laterPeriod |-> NoPeriod]
TimeModelOutcomes ==
    { [kind |-> "rejects", extracted |-> NoExtraction],
      [kind |-> "unparsable", extracted |-> NoExtraction] }
      \cup { [kind |-> "parsed",
              extracted |-> [hasTimeReference |-> h, earlierPeriod |-> e,
                             laterPeriod |-> l]] :
                h \in BOOLEAN, e \in Periods, l \in Periods }

TimeRange(start, end) == [start |-> start, end |-> end]

\* detectTimeRanges
detectTimeRanges(store, outcome) ==
    LET extracted == outcome.extracted IN
    IF /\ outcome.kind = "parsed"
       /\ extracted.hasTimeReference
       /\ extracted.earlierPeriod.present
       /\ extracted.laterPeriod.present
    THEN [source |-> "extracted",
          earlier |-> TimeRange(extracted.earlierPeriod.start, extracted.earlierPeriod.end),
          later |-> TimeRange(extracted.laterPeriod.start, extracted.laterPeriod.end)]
    ELSE LET midpoint == toISODate(getTime(earliestInDb(store))
                                     + getTime(latestInDb(store)))
         IN  [source |-> "midpoint",
              earlier |-> TimeRange(earliestInDb(store), midpoint),
              later |-> TimeRange(midpoint, latestInDb(store))]

NoRanges == [earlier |-> TimeRange(DateOnly(0), DateOnly(0)),
             later |-> TimeRange(DateOnly(0), DateOnly(0))]

\* detectTimeRanges is not being called
TimeIdle ==
    /\ trStore = EmptyStore
    /\ trStatus = "idle"
    /\ trReply = [kind |-> "rejects", extracted |-> NoExtraction]
    /\ trSource = "none"
    /\ trRanges = NoRanges

DefaultMinSimilarityScore == 80
\* no hit of similaritySearchWithScore(query, 1)
NoHit == [found |-> FALSE, cluster |-> "", score |-> 0]

\* the Cluster Detector is not being called
ClusterIdle ==
    /\ cdModel = [kind |-> "rejects", cluster |-> Undefined]
    /\ cdStore = [clusters |-> {}, lookupError |-> FALSE, topHit |-> NoHit]
    /\ cdConfig = "ok"
    /\ cdMinScore = DefaultMinSimilarityScore
    /\ cachedClient = FALSE
    /\ vectorStorePromise = "null"
    /\ cdResults = <<>>

\* the Chat component is not mounted
ChatIdle ==
    /\ chatMessages = <<>>
    /\ chatInput = <<>>
    /\ isLoading = FALSE
    /\ handleSubmit = [input |-> <<>>, isLoading |-> FALSE, messages |-> <<>>]
    /\ pending = FALSE
    /\ requests = <<>>
    /\ transcript = <<>>

\* no concurrent runs
RunsIdle ==
    /\ runPc = <<>>
    /\ runConfig = <<>>
    /\ runOutcome = <<>>

\* get_top_performers is not being invoked
TopIdle ==
    /\ tpArgs = [cluster |-> Undefined, query |-> Undefined, limit |-> 0]
    /\ tpEnv = [rows |-> {}, client |-> "ok", detected |-> "", lookupErrors |-> {}]
    /\ tpStatus = "idle"
    /\ tpResult = [thrown |-> FALSE, kind |-> "none", results |-> {}, lookups |-> <<>>]

\* analyze_content_types is not being invoked
TypesIdle ==
    /\ ctEnv = "rows"
    /\ ctReply = [kind |-> "none", analyses |-> <<>>]
    /\ ctStatus = "idle"
    /\ ctCalls = 0
    /\ ctResult = [thrown |-> FALSE, kind |-> "none", total |-> 0, breakdown |-> <<>>]

\* getFilteredDocsAndContext is not being called
DocsIdle ==
    /\ dQuery = [present |-> TRUE, text |-> <<>>]
    /\ dDocs = <<>>
    /\ dExtract = [kind |-> "rejects", targetIntent |-> "null"]
    /\ dStatus = "idle"
    /\ dResult = [docs |-> <<>>, context |-> <<>>, invoked |-> <<>>, calls |-> <<>>]

\* no caller of getVectorStore
CacheIdle ==
    /\ envReady = TRUE
    /\ heldPromise = 0
    /\ promises = <<>>
    /\ resets = 0
    /\ callerPc = <<>>
    /\ callerGot = <<>>

\* resolveSearchIntent is not being called
ResolveIdle ==
    /\ rQuery = Absent
    /\ rProvided = Absent
    /\ rStatus = "idle"
    /\ rResult = [intent |-> "unknown", confidence |-> "low"]
    /\ rCalls = <<>>

\* no runnable wrapped by withGuardrails is being called
PlainIdle ==
    /\ wInput = [kind |-> "string", body |-> <<>>]
    /\ wStatus = "idle"
    /\ wOutput = NoOutput
    /\ wResult = NoResult
    /\ wCalls = 0

GuardInit ==
    /\ RunIdle
    /\ ToolIdle
    /\ PlainIdle
    /\ PostIdle
    /\ ResolveIdle
    /\ FilterIdle
    /\ TimeIdle
    /\ ClusterIdle
    /\ ChatIdle
    /\ RunsIdle
    /\ TopIdle
    /\ TypesIdle
    /\ DocsIdle
    /\ CacheIdle
    /\ gMaxRetries \in 0..MaxRetriesBound
    /\ gInput \in GuardInputs
    /\ currentInput = gInput
    /\ attempts = 0
    /\ gCalls = <<>>
    /\ gStatus = "running"
    /\ gResult = "none"

GuardAttempt ==
    /\ gStatus = "running"
    /\ \E output \in RunnableOutputs :
          LET g == guardIteration(
                     [maxRetries |-> gMaxRetries, currentInput |-> currentInput,
                      attempts |-> attempts, calls |-> gCalls,
                      status |-> gStatus, result |-> gResult], output)
          IN  /\ currentInput' = g.currentInput
              /\ attempts' = g.attempts
              /\ gCalls' = g.calls
              /\ gStatus' = g.status
              /\ gResult' = g.result
    /\ UNCHANGED <<gMaxRetries, gInput>>
    /\ UNCHANGED nonGuardVars

GuardNext == GuardAttempt

GuardSpec == GuardInit /\ [][GuardNext]_vars

(***************************************************************************)
(* withGuardrails: one call of the wrapped runnable, then the output       *)
(* safety guard; a rejection of either reaches the caller.                 *)
(***************************************************************************)
PlainInit ==
    /\ ResolveIdle
    /\ RunIdle
    /\ GuardIdle
    /\ ToolIdle
    /\ PostIdle
    /\ FilterIdle
    /\ TimeIdle
    /\ ClusterIdle
    /\ ChatIdle
    /\ RunsIdle
    /\ TopIdle
    /\ TypesIdle
    /\ DocsIdle
    /\ CacheIdle
    /\ wInput \in GuardInputs
    /\ wStatus = "ready"
    /\ wOutput = NoOutput
    /\ wResult = NoResult
    /\ wCalls = 0

WithGuardrails ==
    /\ wStatus = "ready"
    /\ wCalls' = wCalls + 1
    /\ \/ \* runnable.invoke rejects
          /\ wStatus' = "thrown"
          /\ UNCHANGED <<wOutput, wResult>>
       \/ \E o \in ModelOutputs :
            /\ wOutput' = o
            /\ wResult' = guardedOutput(o)
            /\ wStatus' = IF guardedOutput(o).thrown THEN "thrown" ELSE "returned"
    /\ UNCHANGED wInput
    /\ UNCHANGED nonPlainVars

PlainNext == WithGuardrails

PlainSpec == PlainInit /\ [][PlainNext]_vars

(***************************************************************************)
(* One call of resolveSearchIntent(query, providedIntent), the model       *)
(* answering as the environment chooses when it is invoked.                *)
(***************************************************************************)
ResolveInit ==
    /\ RunIdle
    /\ GuardIdle
    /\ ToolIdle
    /\ PlainIdle
    /\ PostIdle
    /\ FilterIdle
    /\ TimeIdle
    /\ ClusterIdle
    /\ ChatIdle
    /\ RunsIdle
    /\ TopIdle
    /\ TypesIdle
    /\ DocsIdle
    /\ CacheIdle
    /\ rQuery \in ResolverQueries
    /\ rProvided \in ProvidedIntents
    /\ rStatus = "ready"
    /\ rResult = [intent |-> "unknown", confidence |-> "low"]
    /\ rCalls = <<>>

ResolveSearchIntent ==
    /\ rStatus = "ready"
    /\ \E outcome \in IntentModelOutcomes :
          LET r == resolveSearchIntent(rQuery, rProvided, outcome) IN
          /\ rStatus' = IF r.thrown THEN "thrown" ELSE "returned"
          /\ rResult' = [intent |-> r.intent, confidence |-> r.confidence]
          /\ rCalls' = r.calls
    /\ UNCHANGED <<rQuery, rProvided>>
    /\ UNCHANGED nonResolveVars

ResolveNext == ResolveSearchIntent

ResolveSpec == ResolveInit /\ [][ResolveNext]_vars

(***************************************************************************)
(* The five retrieval tools of tools.ts, with the helpers of the agentic   *)
(* tasks module they call.  env is what the environment does during one    *)
(* invocation:                                                             *)
(*   hint    extractClusterHint's result ("" also when its model call or   *)
(*           parsing fails: it catches)                                    *)
(*   client  getSupabaseClient: "ok" | "throws" (a required variable of    *)
(*           the environment is missing)                                   *)
(*   verify  detectClusterFromQuery's lookup of the hint in the store      *)
(*   vector  getVectorStore and the similarity search:                     *)
(*           "hit" | "miss" | "throws"                                     *)
(*   store   the tool's store query: "rows" | "empty" | "error"            *)
(*   store2  get_top_performers' query-substring lookup                    *)
(*   filter  the items applyIntentFilterToItems keeps: "some" | "none"     *)
(*   model   the classification call: "list" (JSON with a list),           *)
(*           "no_list" (JSON without the key), "bad_shape" (JSON whose     *)
(*           content_type_analysis is not iterable), "no_json", "throws"   *)
(* A result is [thrown, kind, failure]: failure names the first dependency *)
(* whose failure decided the result ("none" when none did).               *)
(***************************************************************************)
StoreReplies == {"rows", "empty", "error"}

ToolEnvironments ==
    [hint : {"", "pizza"}, client : {"ok", "throws"}, verify : StoreReplies,
     vector : {"hit", "miss", "throws"}, store : StoreReplies, store2 : StoreReplies,
     filter : {"some", "none"},
     model : {"list", "no_list", "bad_shape", "no_json", "throws"}]

ToolArgs ==
    [cluster : {Undefined, "pizza", "cluster"}, query : {Undefined, "q", " "},
     intent : {Undefined, "informational"}]

Returns(kind, failure) == [thrown |-> FALSE, kind |-> kind, failure |-> failure]
Throws(failure) == [thrown |-> TRUE, kind |-> "exception", failure |-> failure]

Truthy(str) == str # Undefined /\ str # ""
Trim(str) == IF str = " " THEN "" ELSE str

\* normalizeClusterLabel: "" for no label and for a label that is only the word
\* "cluster" or "niche"
normalizeClusterLabel(raw) ==
    IF raw = Undefined \/ raw = "" \/ raw = "cluster" THEN "" ELSE raw

\* detectClusterFromQuery (agentic tasks): [thrown, value, failure]
detectClusterFromQuery(env) ==
    IF env.hint # "" /\ env.client = "throws"
    THEN [thrown |-> TRUE, value |-> "", failure |-> "client"]
    ELSE IF env.hint # "" /\ env.verify = "rows"
    THEN [thrown |-> FALSE, value |-> env.hint, failure |-> "none"]
    ELSE IF env.vector = "throws"
    THEN [thrown |-> TRUE, value |-> "", failure |-> "vector search"]
    ELSE [thrown |-> FALSE,
          value |-> IF env.vector = "hit" THEN "pizza" ELSE "",
          failure |-> IF env.hint # "" /\ env.verify = "error" THEN "store" ELSE "none"]

\* normalizeClusterLabel(cluster) || (query && (await detectClusterFromQuery(query))) || ""
resolveCluster(args, env) ==
    IF normalizeClusterLabel(args.cluster) # ""
    THEN [thrown |-> FALSE, value |-> normalizeClusterLabel(args.cluster),
          failure |-> "none"]
    ELSE IF Truthy(args.query)
    THEN LET d == detectClusterFromQuery(env) IN
         IF d.thrown THEN [d EXCEPT !.failure = "cluster detection"] ELSE d
    ELSE [thrown |-> FALSE, value |-> "", failure |-> "none"]

(***************************************************************************)
(* The Cluster Detector of the agentic tasks module, with the cached       *)
(* client and vector store of the store module.  A similarity score is in  *)
(* hundredths.                                                             *)
(***************************************************************************)
MinSimilarityScores == {DefaultMinSimilarityScore, 90}
Scores == {79, 80, 81}
HintLabels == {"pizza", "sushi"}

\* what cheapModel.invoke followed by hintParser.parse can do
HintModelOutcomes ==
    { [kind |-> "rejects", cluster |-> Undefined],
      [kind |-> "unparsable", cluster |-> Undefined] }
      \cup { [kind |-> "parsed", cluster |-> raw] :
                raw \in {Undefined, "", "cluster"} \cup HintLabels }

\* extractClusterHint
extractClusterHint(outcome) ==
    IF outcome.kind = "parsed" THEN normalizeClusterLabel(outcome.cluster)
    ELSE \* catch
         ""

\* the top hit of similaritySearchWithScore(query, 1), if there is one
TopHits ==
    {NoHit} \cup { [found |-> TRUE, cluster |-> label, score |-> score] :
                      label \in {""} \cup HintLabels, score \in Scores }

ClusterStores ==
    [clusters : SUBSET HintLabels, lookupError : BOOLEAN, topHit : TopHits]

\* getSupabaseClient: [thrown, cachedClient]
getSupabaseClient(config, cached) ==
    IF cached THEN [thrown |-> FALSE, cachedClient |-> TRUE]
    ELSE IF config = "missing" THEN [thrown |-> TRUE, cachedClient |-> FALSE]
    ELSE [thrown |-> FALSE, cachedClient |-> TRUE]

\* getVectorStore: [rejected, cachedClient, vectorStorePromise]
getVectorStoreMutSingleUse(config, cached, promise) ==
    IF promise # "null"
    THEN [rejected |-> TRUE, cachedClient |-> cached, vectorStorePromise |-> promise]
    ELSE LET client == getSupabaseClient(config, cached) IN
         [rejected |-> client.thrown, cachedClient |-> client.cachedClient,
          vectorStorePromise |-> IF client.thrown THEN "rejected" ELSE "resolved"]

getVectorStore(config, cached, promise) ==
    IF promise # "null"
    THEN [rejected |-> promise = "rejected", cachedClient |-> cached,
          vectorStorePromise |-> promise]
    ELSE \* createVectorStore
         LET client == getSupabaseClient(config, cached) IN
         [rejected |-> client.thrown, cachedClient |-> client.cachedClient,
          vectorStorePromise |-> IF client.thrown THEN "rejected" ELSE "resolved"]

\* detectClusterFromQuery with its score test:
\* [thrown, value, searches, verified, cachedClient, vectorStorePromise]
detectClusterWithScoreMutStrictThreshold(outcome, store, config, minSimilarityScore, cached, promise) ==
    LET clusterHint == extractClusterHint(outcome)
        client == IF clusterHint # "" THEN getSupabaseClient(config, cached)
                  ELSE [thrown |-> FALSE, cachedClient |-> cached]
    IN
    IF client.thrown
    THEN [thrown |-> TRUE, value |-> "", searches |-> 0, verified |-> FALSE,
          cachedClient |-> client.cachedClient, vectorStorePromise |-> promise]
    ELSE IF clusterHint # "" /\ ~store.lookupError /\ clusterHint \in store.clusters
    THEN [thrown |-> FALSE, value |-> clusterHint, searches |-> 0, verified |-> TRUE,
          cachedClient |-> client.cachedClient, vectorStorePromise |-> promise]
    ELSE LET vs == getVectorStore(config, client.cachedClient, promise)
             hit == store.topHit
         IN
         IF vs.rejected
         THEN [thrown |-> TRUE, value |-> "", searches |-> 0, verified |-> FALSE,
               cachedClient |-> vs.cachedClient,
               vectorStorePromise |-> vs.vectorStorePromise]
         ELSE [thrown |-> FALSE,
               value |-> IF hit.found /\ hit.score > minSimilarityScore
                         THEN hit.cluster ELSE "",
               searches |-> 1, verified |-> FALSE,
               cachedClient |-> vs.cachedClient,
               vectorStorePromise |-> vs.vectorStorePromise]

detectClusterWithScore(outcome, store, config, minSimilarityScore, cached, promise) ==
    LET clusterHint == extractClusterHint(outcome)
        client == IF clusterHint # "" THEN getSupabaseClient(config, cached)
                  ELSE [thrown |-> FALSE, cachedClient |-> cached]
    IN
    IF client.thrown
    THEN [thrown |-> TRUE, value |-> "", searches |-> 0, verified |-> FALSE,
          cachedClient |-> client.cachedClient, vectorStorePromise |-> promise]
    ELSE IF clusterHint # "" /\ ~store.lookupError /\ clusterHint \in store.clusters
    THEN [thrown |-> FALSE, value |-> clusterHint, searches |-> 0, verified |-> TRUE,
          cachedClient |-> client.cachedClient, vectorStorePromise |-> promise]
    ELSE LET vs == getVectorStore(config, client.cachedClient, promise)
             hit == store.topHit
         IN
         IF vs.rejected
         THEN [thrown |-> TRUE, value |-> "", searches |-> 0, verified |-> FALSE,
               cachedClient |-> vs.cachedClient,
               vectorStorePromise |-> vs.vectorStorePromise]
         ELSE [thrown |-> FALSE,
               value |-> IF hit.found /\ hit.score >= minSimilarityScore
                         THEN hit.cluster ELSE "",
               searches |-> 1, verified |-> FALSE,
               cachedClient |-> vs.cachedClient,
               vectorStorePromise |-> vs.vectorStorePromise]

searchByQueryFunc(args, env) ==
    LET vectorSearch(failure) ==
            IF env.vector = "throws" THEN Throws("vector search")
            ELSE Returns("results", failure)
    IN  IF env.hint # ""
        THEN IF env.client = "throws" THEN Throws("client")
             ELSE IF env.store = "rows" THEN Returns("results", "none")
             ELSE vectorSearch(IF env.store = "error" THEN "store" ELSE "none")
        ELSE vectorSearch("none")

getTopPerformersFunc(args, env) ==
    IF env.client = "throws" THEN Throws("client")
    ELSE
      LET filterCluster == resolveCluster(args, env) IN
      IF filterCluster.thrown THEN Returns("{error}", filterCluster.failure)
      ELSE IF filterCluster.value # "" /\ env.store = "error"
      THEN Returns("{error}", "store")
      ELSE IF filterCluster.value # "" /\ env.store = "rows"
      THEN Returns("results", "none")
      ELSE IF Truthy(args.query) /\ Trim(args.query) # ""
      THEN CASE env.store2 = "error" -> Returns("{error}", "store")
             [] env.store2 = "rows" -> Returns("results", "none")
             [] OTHER -> Returns("{warning}", "none")
      ELSE Returns("{warning}", "none")

getSerpFeaturesFunc(args, env) ==
    IF env.client = "throws" THEN Throws("client")
    ELSE
      LET resolvedCluster == resolveCluster(args, env) IN
      IF resolvedCluster.thrown THEN Throws(resolvedCluster.failure)
      ELSE IF env.store = "error" THEN Returns("{error}", "store")
      ELSE Returns("feature_frequency", "none")

getClusterDataFunc(args, env) ==
    IF env.client = "throws" THEN Throws("client")
    ELSE IF env.store = "error" THEN Returns("{error}", "store")
    ELSE Returns("cluster_data", "none")

analyzeContentTypesFunc(args, env) ==
    IF env.client = "throws" THEN Throws("client")
    ELSE
      LET resolvedCluster ==
              IF Truthy(args.cluster)
              THEN [thrown |-> FALSE, value |-> args.cluster, failure |-> "none"]
              ELSE resolveCluster(args, env)
      IN
      IF resolvedCluster.thrown THEN Throws(resolvedCluster.failure)
      ELSE IF env.store = "error" THEN Returns("{error}", "store")
      ELSE IF env.store = "empty" THEN Returns("{error}", "none")
      ELSE IF Truthy(args.intent) /\ env.filter = "none" THEN Returns("{error}", "none")
      ELSE CASE env.model = "throws" -> Throws("model")
             [] env.model = "no_json" -> Returns("{error}", "parse")
             [] env.model = "bad_shape" -> Throws("parse")
             [] OTHER -> Returns("content_type_breakdown", "none")

ToolInit ==
    /\ RunIdle
    /\ GuardIdle
    /\ PlainIdle
    /\ PostIdle
    /\ ResolveIdle
    /\ FilterIdle
    /\ TimeIdle
    /\ ClusterIdle
    /\ ChatIdle
    /\ RunsIdle
    /\ TopIdle
    /\ TypesIdle
    /\ DocsIdle
    /\ CacheIdle
    /\ tTool \in RegisteredTools
    /\ tArgs \in { a \in ToolArgs :
                     /\ tTool \in {"search_by_query", "get_cluster_data"} =>
                            a.intent = Undefined
                     /\ tTool = "search_by_query" => a.query = "q" /\ a.cluster = Undefined
                     /\ tTool = "get_cluster_data" =>
                            a.cluster # Undefined /\ a.query = Undefined
                     /\ tTool \in {"get_top_performers", "get_serp_features"} =>
                            a.intent = Undefined }
    /\ tStatus = "ready"
    /\ tResult = Returns("none", "none")

SearchByQuery ==
    /\ tStatus = "ready"
    /\ tTool = "search_by_query"
    /\ \E env \in ToolEnvironments : tResult' = searchByQueryFunc(tArgs, env)
    /\ tStatus' = "done"
    /\ UNCHANGED <<tTool, tArgs>>
    /\ UNCHANGED nonToolVars

GetTopPerformers ==
    /\ tStatus = "ready"
    /\ tTool = "get_top_performers"
    /\ \E env \in ToolEnvironments : tResult' = getTopPerformersFunc(tArgs, env)
    /\ tStatus' = "done"
    /\ UNCHANGED <<tTool, tArgs>>
    /\ UNCHANGED nonToolVars

GetSerpFeatures ==
    /\ tStatus = "ready"
    /\ tTool = "get_serp_features"
    /\ \E env \in ToolEnvironments : tResult' = getSerpFeaturesFunc(tArgs, env)
    /\ tStatus' = "done"
    /\ UNCHANGED <<tTool, tArgs>>
    /\ UNCHANGED nonToolVars

GetClusterData ==
    /\ tStatus = "ready"
    /\ tTool = "get_cluster_data"
    /\ \E env \in ToolEnvironments : tResult' = getClusterDataFunc(tArgs, env)
    /\ tStatus' = "done"
    /\ UNCHANGED <<tTool, tArgs>>
    /\ UNCHANGED nonToolVars

AnalyzeContentTypes ==
    /\ tStatus = "ready"
    /\ tTool = "analyze_content_types"
    /\ \E env \in ToolEnvironments : tResult' = analyzeContentTypesFunc(tArgs, env)
    /\ tStatus' = "done"
    /\ UNCHANGED <<tTool, tArgs>>
    /\ UNCHANGED nonToolVars

ToolNext ==
    \/ SearchByQuery
    \/ GetTopPerformers
    \/ GetSerpFeatures
    \/ GetClusterData
    \/ AnalyzeContentTypes

ToolSpec == ToolInit /\ [][ToolNext]_vars

(***************************************************************************)
(* The model the nodes and helpers of page.tsx invoke: `model` is a        *)
(* ChatOpenAI and modelWithTools is model.bindTools(...); neither is       *)
(* wrapped by withGuardrails or withStructuredOutputGuards, and the        *)
(* schema-constrained calls parse the response with their own parser.      *)
(* A model invocation is recorded as [site, schema, outputGuard,           *)
(* repairGuard]: where it is made, whether its response is parsed against  *)
(* a schema, and the guard layers its response passes.                     *)
(***************************************************************************)
modelOutputGuard == FALSE
modelRepairGuard == FALSE

ModelCall(site, schema) ==
    [site |-> site, schema |-> schema,
     outputGuard |-> modelOutputGuard, repairGuard |-> modelRepairGuard]

\* the classification calls made by the analyze_content_types calls of a tools
\* step (one per call whose store query returned rows)
ClassificationCalls(log) ==
    LET made == SelectSeq(log, LAMBDA e : e.invoked /\ e.env = "ok"
                                          /\ e.call.name = "analyze_content_types")
    IN  [k \in 1..Len(made) |-> ModelCall("analyze_content_types", FALSE)]

(***************************************************************************)
(* The run: one action per node of the graph.                              *)
(***************************************************************************)
Init ==
    /\ pc = workflow("START", Undefined, <<>>, EmptyText)
    /\ conversationHistory \in Histories
    /\ intent = Undefined
    /\ messages = <<>>
    /\ answer = EmptyText
    /\ responseType = ""
    /\ executed = <<>>
    /\ modelLog = <<>>
    /\ toolLog = <<>>
    /\ modelCalls = <<>>
    /\ routerExplanation = EmptyText
    /\ documents = <<>>
    /\ responses = <<>>
    /\ retrieved = <<>>
    /\ GuardIdle
    /\ ToolIdle
    /\ PlainIdle
    /\ PostIdle
    /\ ResolveIdle
    /\ FilterIdle
    /\ TimeIdle
    /\ ClusterIdle
    /\ ChatIdle
    /\ RunsIdle
    /\ TopIdle
    /\ TypesIdle
    /\ DocsIdle
    /\ CacheIdle

\* routerNode: model.invoke, routerParser.parse; both reject on failure
RouterOutputs == QueryIntent \cup {"unparsable", "throws"}

\* routerNode's update for a decision whose intent is `decided`
routerNode(decided) ==
    [intent |-> decided, routerExplanation |-> <<"explanation of", decided>>]

\* strategyNode's and comparisonNode's updates for the final response
strategyNodeMutStaleAnswer(ans, content) ==
    [documents |-> <<"clusterDocs">>, answer |-> ans, responseType |-> "strategy"]
strategyNode(ans, content) ==
    [documents |-> <<"clusterDocs">>, answer |-> content, responseType |-> "strategy"]

comparisonNode(ans, content) ==
    [documents |-> <<"earlierDocs", "laterDocs">>, answer |-> content,
     responseType |-> "comparison"]

Router ==
    /\ pc = "router"
    /\ executed' = Append(executed, "router")
    /\ modelCalls' = Append(modelCalls, ModelCall("router", TRUE))
    /\ \E out \in RouterOutputs :
          IF out \in QueryIntent
          THEN /\ intent' = routerNode(out).intent
               /\ routerExplanation' = routerNode(out).routerExplanation
               /\ pc' = workflow("router", out, messages, answer)
          ELSE /\ intent' = intent
               /\ routerExplanation' = routerExplanation
               /\ pc' = "ABORTED"
    /\ UNCHANGED <<conversationHistory, messages, answer, responseType, modelLog, toolLog,
                   documents, responses, retrieved>>
    /\ UNCHANGED nonGraphVars

StandardAgent ==
    /\ pc = "standard_agent"
    /\ Len(modelLog) < MaxModelCalls
    /\ executed' = Append(executed, "standard_agent")
    /\ \/ \* detectClusterFromQuery rejects (vector store unreachable)
          /\ pc' = "ABORTED"
          /\ UNCHANGED <<messages, modelLog, modelCalls, responses>>
       \/ \* modelWithTools.invoke rejects
          /\ pc' = "ABORTED"
          /\ UNCHANGED responses
          /\ modelCalls' = Append(modelCalls, ModelCall("standard_agent", FALSE))
          /\ modelLog' = Append(modelLog,
                 [node |-> "standard_agent",
                  input |-> standardAgentInput(conversationHistory),
                  thrown |-> TRUE, output |-> NoResponse])
          /\ UNCHANGED messages
       \/ \E response \in ModelResponses :
            LET update == standardAgentNode(messages, response) IN
            /\ modelCalls' = Append(modelCalls, ModelCall("standard_agent", FALSE))
            /\ responses' = Append(responses, response.content)
            /\ modelLog' = Append(modelLog,
                   [node |-> "standard_agent",
                    input |-> standardAgentInput(conversationHistory),
                    thrown |-> FALSE, output |-> response])
            /\ messages' = update.messages
            /\ pc' = workflow("standard_agent", intent, update.messages, answer)
    /\ UNCHANGED <<conversationHistory, intent, answer, responseType, toolLog,
                   routerExplanation, documents, retrieved>>
    /\ UNCHANGED nonGraphVars

ToolExecutor ==
    /\ pc = "tools"
    /\ executed' = Append(executed, "tools")
    /\ \E env \in ToolEnvs(messages[Len(messages)].tool_calls) :
          LET r == toolExecutorNode(messages, env) IN
          /\ toolLog' = toolLog \o r.log
          /\ modelCalls' = modelCalls \o ClassificationCalls(r.log)
          /\ IF r.thrown
             THEN /\ pc' = "ABORTED"
                  /\ UNCHANGED messages
             ELSE /\ messages' = messagesReducer(messages, r.toolMessages)
                  /\ pc' = workflow("tools", intent,
                                    messagesReducer(messages, r.toolMessages), answer)
    /\ UNCHANGED <<conversationHistory, intent, answer, responseType, modelLog,
                   routerExplanation, documents, responses, retrieved>>
    /\ UNCHANGED nonGraphVars

StandardResponse ==
    /\ pc = "standard_response"
    /\ Len(modelLog) < MaxModelCalls
    /\ executed' = Append(executed, "standard_response")
    /\ modelCalls' = Append(modelCalls, ModelCall("standard_response", FALSE))
    /\ \/ \* modelWithTools.invoke rejects
          /\ pc' = "ABORTED"
          /\ modelLog' = Append(modelLog,
                 [node |-> "standard_response",
                  input |-> standardResponseInput(messages),
                  thrown |-> TRUE, output |-> NoResponse])
          /\ UNCHANGED <<messages, answer, responseType, responses>>
       \/ \E response \in ModelResponses :
            LET update == standardResponseNode(messages, answer, responseType, response) IN
            /\ responses' = Append(responses, response.content)
            /\ modelLog' = Append(modelLog,
                   [node |-> "standard_response",
                    input |-> standardResponseInput(messages),
                    thrown |-> FALSE, output |-> response])
            /\ messages' = update.messages
            /\ answer' = update.answer
            /\ responseType' = update.responseType
            /\ pc' = workflow("standard_response", intent, update.messages, update.answer)
    /\ UNCHANGED <<conversationHistory, intent, toolLog, routerExplanation, documents,
                   retrieved>>
    /\ UNCHANGED nonGraphVars

(***************************************************************************)
(* What the branch nodes ask of the store.  A query's rows are counted;    *)
(* the query builder's limit(n) cuts the rows returned to n.               *)
(***************************************************************************)
StrategyLimit == 100
ComparisonLimit == 20
StoreRowCounts == {0, ComparisonLimit, ComparisonLimit + 1, StrategyLimit, MaxRows}

limitMutUnbounded(rows, n) == rows
limit(rows, n) == IF rows < n THEN rows ELSE n

\* detectClusterFromQuery(state.query) || "General"
strategyClusterName(detected) == IF Truthy(detected) THEN detected ELSE "General"

\* the store queries of strategyNode and of comparisonNode
strategyRetrieval(detected, rows) ==
    [node |-> "strategy", detected |-> detected,
     cluster |-> strategyClusterName(detected),
     rows |-> <<rows>>, fetched |-> <<limit(rows, StrategyLimit)>>]

comparisonRetrieval(detected, earlierRows, laterRows) ==
    [node |-> "comparison", detected |-> detected, cluster |-> detected,
     rows |-> <<earlierRows, laterRows>>,
     fetched |-> <<limit(earlierRows, ComparisonLimit), limit(laterRows, ComparisonLimit)>>]

\* strategyNode: retrieval and aggregation, then one call of the model
Strategy ==
    /\ pc = "strategy"
    /\ executed' = Append(executed, "strategy")
    /\ \/ \* cluster detection or the store query rejects
          /\ pc' = "ABORTED"
          /\ UNCHANGED <<answer, responseType, modelCalls, documents, responses, retrieved>>
       \/ \* the final model call rejects
          /\ pc' = "ABORTED"
          /\ modelCalls' = modelCalls \o <<ModelCall("intent_resolver", TRUE),
                                           ModelCall("strategy", FALSE)>>
          /\ \E detected \in {""} \cup HintLabels, rows \in StoreRowCounts :
                retrieved' = Append(retrieved, strategyRetrieval(detected, rows))
          /\ UNCHANGED <<answer, responseType, documents, responses>>
       \/ \E content \in AnswerContents, filtered \in BOOLEAN,
             detected \in {""} \cup HintLabels, rows \in StoreRowCounts :
            \* applyIntentFilterToItems: detectSearchIntent always (no provided
            \* intent, non-blank query), filterItemsByIntent when the intent is
            \* known and there are documents
            /\ filtered => rows > 0
            /\ retrieved' = Append(retrieved, strategyRetrieval(detected, rows))
            /\ modelCalls' = modelCalls
                  \o <<ModelCall("intent_resolver", TRUE)>>
                  \o (IF filtered THEN <<ModelCall("relevance_filter", TRUE)>> ELSE <<>>)
                  \o <<ModelCall("strategy", FALSE)>>
            /\ responses' = Append(responses, content)
            /\ answer' = strategyNode(answer, content).answer
            /\ responseType' = strategyNode(answer, content).responseType
            /\ documents' = strategyNode(answer, content).documents
            /\ pc' = workflow("strategy", intent, messages,
                              strategyNode(answer, content).answer)
    /\ UNCHANGED <<conversationHistory, intent, messages, modelLog, toolLog,
                   routerExplanation>>
    /\ UNCHANGED nonGraphVars

\* comparisonNode: time ranges, retrieval, then one call of the model
Comparison ==
    /\ pc = "comparison"
    /\ executed' = Append(executed, "comparison")
    /\ \/ \* the vector store is unreachable
          /\ pc' = "ABORTED"
          /\ UNCHANGED <<answer, responseType, modelCalls, documents, responses, retrieved>>
       \/ \* cluster detection, the topic search or the final model call rejects
          /\ pc' = "ABORTED"
          /\ modelCalls' = Append(modelCalls, ModelCall("time_range_detector", TRUE))
          /\ UNCHANGED <<answer, responseType, documents, responses, retrieved>>
       \/ \E content \in AnswerContents, detected \in {""} \cup HintLabels,
             earlierRows \in StoreRowCounts, laterRows \in StoreRowCounts :
            /\ retrieved' = Append(retrieved,
                                   comparisonRetrieval(detected, earlierRows, laterRows))
            /\ modelCalls' = modelCalls \o <<ModelCall("time_range_detector", TRUE),
                                             ModelCall("comparison", FALSE)>>
            /\ responses' = Append(responses, content)
            /\ answer' = comparisonNode(answer, content).answer
            /\ responseType' = comparisonNode(answer, content).responseType
            /\ documents' = comparisonNode(answer, content).documents
            /\ pc' = workflow("comparison", intent, messages,
                              comparisonNode(answer, content).answer)
    /\ UNCHANGED <<conversationHistory, intent, messages, modelLog, toolLog,
                   routerExplanation>>
    /\ UNCHANGED nonGraphVars

Next ==
    \/ Router
    \/ StandardAgent
    \/ ToolExecutor
    \/ StandardResponse
    \/ Strategy
    \/ Comparison

Spec == Init /\ [][Next]_vars

(***************************************************************************)
(* runSEOQuery's return value for the final state of a run; clusterName is *)
(* the cluster the branch detected ("" when none).                         *)
(***************************************************************************)
ClusterNames == {"", "pizza"}

runSEOQuery(clusterName) ==
    [type |-> responseType,
     answer |-> answer,
     cluster |-> IF clusterName = "" THEN Undefined ELSE clusterName,
     documents |-> documents,
     intent |-> intent,
     explanation |-> routerExplanation]

BranchTag(b) ==
    CASE b = "STANDARD" -> "standard"
      [] b = "STRATEGY" -> "strategy"
      [] b = "COMPARISON" -> "comparison"
      [] OTHER -> "none"

(***************************************************************************)
(* POST: the body is read and the query validated; a valid request runs    *)
(* the graph on the trimmed query (runSEOQuery); the run's result, or any  *)
(* error thrown on the way, becomes the response.                          *)
(***************************************************************************)
PostInit ==
    /\ ResolveIdle
    /\ RunIdle
    /\ GuardIdle
    /\ ToolIdle
    /\ PlainIdle
    /\ FilterIdle
    /\ TimeIdle
    /\ ClusterIdle
    /\ ChatIdle
    /\ RunsIdle
    /\ TopIdle
    /\ TypesIdle
    /\ DocsIdle
    /\ CacheIdle
    /\ pBody \in PostBodies
    /\ pState = "received"
    /\ pResponse = NoResponseYet

PostReceive ==
    /\ pState = "received"
    /\ IF bodyThrows(pBody)
       THEN /\ pResponse' = postFailed
            /\ pState' = "responded"
            /\ UNCHANGED <<pc, conversationHistory>>
       ELSE IF queryRejected(pBody)
       THEN /\ pResponse' = postRejected
            /\ pState' = "responded"
            /\ UNCHANGED <<pc, conversationHistory>>
       ELSE \* seoGraph.invoke({ query, conversationHistory: history || [] })
            /\ pState' = "running"
            /\ pc' = workflow("START", Undefined, <<>>, EmptyText)
            \* (the valid bodies explored carry no history)
            /\ conversationHistory' = <<>>
            /\ UNCHANGED pResponse
    /\ UNCHANGED <<intent, messages, answer, responseType, executed, modelLog, toolLog,
                   modelCalls, routerExplanation, documents, responses, retrieved>>
    /\ UNCHANGED pBody
    /\ UNCHANGED nonRunVars

PostRespond ==
    /\ pState = "running"
    /\ pc \in {"END", "ABORTED"}
    /\ pState' = "responded"
    /\ IF pc = "END"
       THEN \E c \in ClusterNames : pResponse' = postSucceeded(runSEOQuery(c))
       ELSE pResponse' = postFailed
    /\ UNCHANGED pBody
    /\ UNCHANGED graphVars
    /\ UNCHANGED nonRunVars

PostNext ==
    \/ PostReceive
    \/ Router
    \/ StandardAgent
    \/ ToolExecutor
    \/ StandardResponse
    \/ Strategy
    \/ Comparison
    \/ PostRespond

PostSpec == PostInit /\ [][PostNext]_vars

(***************************************************************************)
(* Vocabulary of the properties of a run.                                  *)
(***************************************************************************)
StandardNodes == {"standard_agent", "tools", "standard_response"}
BranchNodes == StandardNodes \cup {"strategy", "comparison"}

BranchOf(n) ==
    CASE n \in StandardNodes -> "STANDARD"
      [] n = "strategy" -> "STRATEGY"
      [] n = "comparison" -> "COMPARISON"
      [] OTHER -> "NONE"

BranchesExecuted == {BranchOf(executed[k]) : k \in 1..Len(executed)} \ {"NONE"}

LastExecuted == IF executed = <<>> THEN "START" ELSE executed[Len(executed)]

\* the tool-result messages of the transcript, in order
ToolMsgs == SelectSeq(messages, LAMBDA m : m.type = "tool")
ToolMsgsOf(msgs) == SelectSeq(msgs, LAMBDA m : m.type = "tool")

\* the invocations of the tool-bound model that returned a response, in order
Returned == SelectSeq(modelLog, LAMBDA e : ~e.thrown)

IsPlain(e) == e.output.tool_calls = <<>>

\* the tool calls of the first k responses, in the order issued
RECURSIVE CallsIssued(_)
CallsIssued(k) ==
    IF k = 0 THEN <<>> ELSE CallsIssued(k - 1) \o Returned[k].output.tool_calls

\* responses whose tool calls the tools node has processed
NAnswered == IF pc = "tools" THEN Len(Returned) - 1 ELSE Len(Returned)

LoggedCalls == [k \in 1..Len(toolLog) |-> toolLog[k].call]

\* the responses and tool results of the first k rounds, in the order produced
RECURSIVE Transcript(_)
Transcript(k) ==
    IF k = 0 THEN <<>>
    ELSE Transcript(k - 1) \o <<Returned[k].output>>
            \o SubSeq(ToolMsgs, Len(CallsIssued(k - 1)) + 1, Len(CallsIssued(k)))

(***************************************************************************)
(* C1. The router is the first node executed; a run executes nodes of at   *)
(* most one branch, and of exactly one when it reaches END; routeByIntent  *)
(* names a branch node for every value of the intent, null and             *)
(* unrecognised values included.                                           *)
(***************************************************************************)
C1_ExactlyOneBranch ==
    /\ (executed = <<>>) => pc = "router"
    /\ (executed # <<>>) => executed[1] = "router"
    /\ \A k \in 2..Len(executed) : executed[k] \in BranchNodes
    /\ Cardinality(BranchesExecuted) <= 1
    /\ (pc = "END") => Cardinality(BranchesExecuted) = 1
    /\ \A v \in IntentValues :
          routeByIntent(v) \in {"standard_agent", "strategy", "comparison"}

C1_Witness ==
    /\ pc = "END"
    /\ BranchesExecuted = {"STANDARD"}
    /\ \E k \in 1..Len(executed) : executed[k] = "tools"

(***************************************************************************)
(* C2.  Between a response with tool calls and the next invocation of the  *)
(* model, every tool call of the response is handled exactly once (a       *)
(* registered tool is invoked once) and answered by exactly one            *)
(* tool-result message under the id idOf(call id).                         *)
(***************************************************************************)
AnsweredOnceUnder(idOf(_)) ==
    /\ Len(ToolMsgs) = Len(toolLog)
    /\ LoggedCalls = CallsIssued(NAnswered)
    /\ \A k \in 1..Len(toolLog) :
          /\ toolLog[k].invoked = (toolLog[k].call.name \in RegisteredTools)
          /\ k <= Len(ToolMsgs) => ToolMsgs[k].tool_call_id = idOf(toolLog[k].call.id)
    /\ \A k \in 1..Len(modelLog) :
          Len(ToolMsgsOf(modelLog[k].input))
              = (IF k = 1 THEN 0 ELSE Len(CallsIssued(k - 1)))

\* C2 as stated: every tool call is executed once and answered by one tool-result
\* message carrying the same call id, also when the model supplied no id.
C2_AnsweredUnderSameId == AnsweredOnceUnder(LAMBDA id : id)

\* C2 amended: every tool call is executed once and answered by one tool-result
\* message carrying the call's id, or the empty string when the call has no id.
C2_AnsweredUnderIdOrEmpty ==
    AnsweredOnceUnder(LAMBDA id : IF id = Undefined THEN "" ELSE id)

\* a response with two calls that both lack an id was answered, and the model
\* was invoked again
C2_Witness ==
    /\ Len(modelLog) >= 2
    /\ Len(Returned) >= 2
    /\ Len(Returned[1].output.tool_calls) = 2
    /\ Len(toolLog) = 2
    /\ toolLog[1].call.id = Undefined
    /\ toolLog[2].call.id = Undefined

(***************************************************************************)
(* C3.  The first response of the tool-bound model that carries no tool    *)
(* call ends the loop: it is the last invocation, the run is at END and    *)
(* the answer is that response's content.                                  *)
(***************************************************************************)
C3_PlainResponseTerminates ==
    \A k \in 1..Len(Returned) :
        IsPlain(Returned[k]) =>
            /\ k = Len(modelLog)
            /\ pc = "END"
            /\ answer = Returned[k].output.content

(***************************************************************************)
(* C4.  Every invocation of the tool-bound model after the first receives  *)
(* the initial message list (system instructions, mapped history, current  *)
(* query) followed by every response and tool result produced so far.      *)
(***************************************************************************)
C4_FullTranscript ==
    \A k \in 2..Len(modelLog) :
        modelLog[k].input = InitialMessages(conversationHistory) \o Transcript(k - 1)

(***************************************************************************)
(* C5.  When the first k responses request tools and response k+1 is       *)
(* plain, the run ends there: k+1 invocations of the tool-bound model, and *)
(* the tool calls executed are exactly those of the k responses.           *)
(***************************************************************************)
C5_KPlusOneInvocations ==
    \A p \in 1..Len(Returned) :
        (IsPlain(Returned[p]) /\ \A j \in 1..(p - 1) : ~IsPlain(Returned[j])) =>
            /\ Len(modelLog) = p
            /\ LoggedCalls = CallsIssued(p - 1)
            /\ Len(SelectSeq(toolLog, LAMBDA e : e.invoked))
                  = Len(SelectSeq(CallsIssued(p - 1),
                                  LAMBDA c : c.name \in RegisteredTools))

(***************************************************************************)
(* C6.  The tool calls of a response are executed in the order issued and  *)
(* their results appended in that order, all before the next invocation.    *)
(***************************************************************************)
C6_ToolCallsInOrder ==
    LET answered == CallsIssued(NAnswered) IN
    /\ LoggedCalls = answered
    /\ Len(ToolMsgs) = Len(answered)
    /\ \A k \in 1..Len(ToolMsgs) :
          /\ k <= Len(answered)
          /\ ToolMsgs[k].content[Len(ToolMsgs[k].content)] = answered[k].name
          /\ (answered[k].id # Undefined) => ToolMsgs[k].tool_call_id = answered[k].id
    /\ \A k \in 2..Len(modelLog) :
          ToolMsgsOf(modelLog[k].input) = SubSeq(ToolMsgs, 1, Len(CallsIssued(k - 1)))

\* a response with two different calls was answered and the model invoked again
C6_Witness ==
    /\ Len(modelLog) >= 2
    /\ Len(Returned) >= 2
    /\ Len(Returned[1].output.tool_calls) = 2
    /\ Returned[1].output.tool_calls[1].name # Returned[1].output.tool_calls[2].name
    /\ Returned[1].output.tool_calls[1].id # Returned[1].output.tool_calls[2].id

(***************************************************************************)
(* C7.  A tool call that throws, whose store query returns an error or     *)
(* that names an unregistered tool does not abort the run: it yields one   *)
(* tool-result message with an error payload (under the call's id, when    *)
(* it has one), the other calls of the response are still handled, and     *)
(* the graph goes on to the node that invokes the model.                   *)
(***************************************************************************)
ToolCallFails(e) ==
    e.env \in {"throws", "store_error"} \/ e.call.name \notin RegisteredTools

ErrorPayload(c) == c # <<>> /\ c[1] \in {"{error}", "Error executing tool"}

C7_ToolFailureNeverAborts ==
    /\ Len(ToolMsgs) = Len(toolLog)
    /\ LoggedCalls = CallsIssued(NAnswered)
    /\ \A k \in 1..Len(toolLog) :
          (k <= Len(ToolMsgs) /\ ToolCallFails(toolLog[k])) =>
              /\ ErrorPayload(ToolMsgs[k].content)
              /\ ToolMsgs[k].content[Len(ToolMsgs[k].content)] = toolLog[k].call.name
              /\ (toolLog[k].call.id # Undefined) =>
                    ToolMsgs[k].tool_call_id = toolLog[k].call.id
    /\ (LastExecuted = "tools") => pc = "standard_response"
    /\ \A k \in 1..(Len(executed) - 1) :
          (executed[k] = "tools") => executed[k + 1] = "standard_response"

\* the first call of a response threw, the second was handled, the model was
\* invoked again; elsewhere a store error and an unregistered tool were answered
C7_Witness ==
    /\ Len(modelLog) >= 2
    /\ Len(Returned) >= 2
    /\ Len(Returned[1].output.tool_calls) = 2
    /\ Len(toolLog) >= 2
    /\ toolLog[1].env = "throws"
    /\ toolLog[2].env = "store_error"
    /\ LastExecuted = "standard_response"

(***************************************************************************)
(* Vocabulary of the properties of the schema-repair guard.  The output of *)
(* an attempt parses when the runnable returned a text that parses against *)
(* the schema and that the safety guard left in place.                     *)
(***************************************************************************)
AttemptParses(c) ==
    ~c.output.thrown /\ c.output.text.parses /\ ~c.output.text.secret

AllAttemptsFailed == \A k \in 1..Len(gCalls) : ~AttemptParses(gCalls[k])

C10_GuardrailErrorIffExhausted ==
    /\ (gStatus = "GuardrailError") <=>
          (Len(gCalls) = gMaxRetries + 1 /\ AllAttemptsFailed)
    /\ gStatus \in {"running", "returned", "GuardrailError"}
    /\ (gStatus = "running") => Len(gCalls) <= gMaxRetries
    /\ (gStatus = "returned") => ~AllAttemptsFailed

\* maxRetries = 2: a model error, a redacted output and an unparsable output
\* spend the budget
C10_Witness ==
    /\ gMaxRetries = 2
    /\ gStatus = "GuardrailError"
    /\ Len(gCalls) = 3
    /\ \E k \in 1..3 : gCalls[k].output.thrown
    /\ \E k \in 1..3 : ~gCalls[k].output.thrown /\ gCalls[k].output.text.secret

(***************************************************************************)
(* C8.  Each of the five registered tools, invoked with schema-valid       *)
(* arguments, returns a string and never throws; a failure of a store      *)
(* query, of the vector search, of cluster detection or of the             *)
(* classification model call is returned as an {error} payload.            *)
(***************************************************************************)
C8_ToolsNeverThrow ==
    (tStatus = "done") =>
        /\ ~tResult.thrown
        /\ (tResult.failure \in {"store", "vector search", "cluster detection", "model"})
              => tResult.kind = "{error}"

(***************************************************************************)
(* C11.  GuardrailError is distinguishable from model and network errors:  *)
(* the attempt on which the guard raises GuardrailError is one whose       *)
(* output failed parsing, never one where the model invocation itself      *)
(* threw.                                                                  *)
(***************************************************************************)
C11_GuardrailErrorOnlyForParseFailures ==
    (gStatus = "GuardrailError") =>
        /\ Len(gCalls) >= 1
        /\ ~gCalls[Len(gCalls)].output.thrown

(***************************************************************************)
(* C15.  When the router's model call fails or its response cannot be      *)
(* parsed, the run does not abort: it goes on with the STANDARD path.      *)
(***************************************************************************)
C15_RouterFailureDefaultsToStandard ==
    (LastExecuted = "router" /\ intent \notin QueryIntent) =>
        pc = "standard_agent"

(***************************************************************************)
(* C12.  When the text of a model output holds a sensitive keyword, the    *)
(* value the output safety guard returns is the redaction marker and holds *)
(* no part of the original output, whatever the output's shape: a string,  *)
(* a message with string content, with tool calls or other fields, with    *)
(* non-string content, or another object.                                  *)
(***************************************************************************)
C12_RedactionReplacesWholeOutput ==
    (wStatus # "ready" /\ wOutput # NoOutput /\ wOutput.contentSecret) =>
        /\ ~wResult.thrown
        /\ wResult.redacted
        /\ wResult.retained = {}

(***************************************************************************)
(* C13.  Redaction is never retried: withGuardrails invokes the wrapped    *)
(* runnable once, and in the schema-repair guard an attempt whose output   *)
(* was redacted (and would have parsed as the model returned it) is not    *)
(* followed by another invocation.                                         *)
(***************************************************************************)
C13_RedactionNeverRetried ==
    /\ wCalls <= 1
    /\ \A k \in 1..Len(gCalls) :
          (/\ ~gCalls[k].output.thrown
           /\ gCalls[k].output.text.secret
           /\ gCalls[k].output.text.parses) => k = Len(gCalls)

(***************************************************************************)
(* C14.  Every model invocation of a run (router, STANDARD agent and       *)
(* response, STRATEGY, COMPARISON, intent resolver, relevance filter,      *)
(* time-range detector, content-type classification) has its response      *)
(* passed through the output safety guard, and every schema-constrained    *)
(* one through the schema-repair guard as well.                            *)
(***************************************************************************)
C14_EveryModelCallGuarded ==
    \A k \in 1..Len(modelCalls) :
        /\ modelCalls[k].outputGuard
        /\ modelCalls[k].schema => modelCalls[k].repairGuard

(***************************************************************************)
(* C18.  A run that reaches END returns the envelope {type, answer,        *)
(* cluster?, documents, intent, explanation} whose type is the tag of the  *)
(* branch that executed and of the router's intent, and whose answer is    *)
(* the content of the last model response of that branch.                  *)
(***************************************************************************)
C18_UniformEnvelope ==
    (pc = "END") =>
        \A c \in ClusterNames :
            LET e == runSEOQuery(c) IN
            /\ DOMAIN e = {"type", "answer", "cluster", "documents", "intent",
                           "explanation"}
            /\ BranchesExecuted = {e.intent}
            /\ e.type = BranchTag(e.intent)
            /\ responses # <<>>
            /\ e.answer = responses[Len(responses)]
            /\ e.explanation = routerNode(e.intent).routerExplanation

\* a STRATEGY run has reached END with a non-empty answer
C18_Witness ==
    /\ pc = "END"
    /\ intent = "STRATEGY"
    /\ runSEOQuery("pizza").type = "strategy"
    /\ runSEOQuery("pizza").answer = <<"answer">>

(***************************************************************************)
(* C16.  A POST whose query is missing, not a string, empty or             *)
(* whitespace-only is rejected with success = false and status 400, and    *)
(* no orchestration step (router, model or store call) is made for it.     *)
(***************************************************************************)
C16_InvalidQueryRejectedWith400 ==
    (pState # "idle" /\ (pBody.json # "object" \/ queryRejected(pBody))) =>
        /\ executed = <<>>
        /\ modelCalls = <<>>
        /\ pc = "IDLE"
        /\ (pState = "responded") =>
              pResponse.status = 400 /\ ~pResponse.success

(***************************************************************************)
(* C17.  Every response is either {success: true, data} without error      *)
(* (status 200) or {success: false, error} without data; status 400 is     *)
(* returned only for an invalid query, and a run that failed downstream is *)
(* answered with success = false and a 5xx status.                         *)
(***************************************************************************)
C17_ResponseEnvelope ==
    (pState = "responded") =>
        /\ \/ /\ pResponse.success
              /\ pResponse.status = 200
              /\ pResponse.hasData /\ ~pResponse.hasError
           \/ /\ ~pResponse.success
              /\ pResponse.status \in {400, 500}
              /\ pResponse.hasError /\ ~pResponse.hasData
        /\ (pResponse.status = 400) => (queryRejected(pBody) /\ executed = <<>>)
        /\ (pc = "ABORTED") => (pResponse.status = 500 /\ ~pResponse.success)
        /\ (pc = "END") => (pResponse.success /\ pResponse.data.answer = answer)

\* a run that aborted after a tool step was answered with status 500
C17_Witness ==
    /\ pState = "responded"
    /\ pc = "ABORTED"
    /\ Len(executed) >= 3
    /\ pResponse.status = 500
    /\ ~pResponse.success

(***************************************************************************)
(* Claims about resolveSearchIntent.                                       *)
(***************************************************************************)
\* the call has returned or thrown
Resolved == rStatus \in {"returned", "thrown"}

\* providedIntent after trimming and lower-casing
NormalizedProvided == toLowerCase(trim(rProvided.text))

\* the mapping of the recognised prefixes
MappedIntent(word) ==
    CASE word = "info" -> "informational"
      [] word = "nav" -> "navigational"
      [] word = "unknown" -> "unknown"
      [] OTHER -> "transactional"

RecognisedPrefixes == {"info", "nav", "trans", "comm", "investig", "local", "unknown"}

\* the call answered from providedIntent alone
AnsweredHigh(mapped) ==
    /\ rStatus = "returned"
    /\ rResult = [intent |-> mapped, confidence |-> "high"]
    /\ rCalls = <<>>

ProvidedRecognised ==
    /\ rProvided.present
    /\ \/ \E word \in RecognisedPrefixes : startsWith(NormalizedProvided, word)
       \/ includes(NormalizedProvided, "investig")

\* query is missing, empty or white space only
QueryBlank == ~rQuery.present \/ trim(rQuery.text) = <<>>

\* C20: a call of resolveSearchIntent invokes the model at most once, and only
\* when providedIntent is not recognised and the query is not blank; with a
\* blank query and no recognised providedIntent it returns {unknown, low}
\* without a model call; and when the model call or its parsing fails it
\* returns {unknown, low} instead of raising.
C20_ModelOnlyAsLastResort ==
    Resolved =>
        /\ Len(rCalls) <= 1
        /\ (rCalls # <<>>) => (~ProvidedRecognised /\ ~QueryBlank)
        /\ (~ProvidedRecognised /\ QueryBlank) =>
              /\ rStatus = "returned"
              /\ rResult = [intent |-> "unknown", confidence |-> "low"]
              /\ rCalls = <<>>
        /\ (rCalls # <<>> /\ rCalls[1] # "parsed") =>
              /\ rStatus = "returned"
              /\ rResult = [intent |-> "unknown", confidence |-> "low"]

\* the model was invoked for an unrecognised providedIntent and rejected
C20_Witness ==
    /\ rStatus = "returned"
    /\ rProvided = Present(<<"x">>)
    /\ rQuery = Present(<<"q">>)
    /\ rCalls = <<"rejects">>
    /\ rResult = [intent |-> "unknown", confidence |-> "low"]

(***************************************************************************)
(* One call of applyIntentFilterToItems, the model answering the intent    *)
(* classification and the relevance filter as the environment chooses.     *)
(***************************************************************************)
FilterProvided == {Absent, Present(<<"Info">>), Present(<<"unknown">>), Present(<<"x">>)}
FilterItems == { [k \in 1..n |-> [position |-> k]] : n \in 0..MaxItems }

FilterInit ==
    /\ RunIdle
    /\ GuardIdle
    /\ ToolIdle
    /\ PlainIdle
    /\ PostIdle
    /\ ResolveIdle
    /\ TimeIdle
    /\ ClusterIdle
    /\ ChatIdle
    /\ RunsIdle
    /\ TopIdle
    /\ TypesIdle
    /\ DocsIdle
    /\ CacheIdle
    /\ fQuery \in ResolverQueries
    /\ fProvided \in FilterProvided
    /\ fItems \in FilterItems
    /\ fStatus = "ready"
    /\ fReply = [kind |-> "rejects", keep |-> <<>>]
    /\ fKeep = NullKeep
    /\ fResult = NoFilterResult
    /\ fCalls = <<>>

ApplyIntentFilterToItems ==
    /\ fStatus = "ready"
    /\ \E intentOutcome \in IntentModelOutcomes, filterOutcome \in FilterModelOutcomes :
          LET r == applyIntentFilterToItems(fQuery, fProvided, fItems,
                                            intentOutcome, filterOutcome) IN
          /\ fStatus' = IF r.thrown THEN "thrown" ELSE "returned"
          /\ fReply' = filterOutcome
          /\ fKeep' = r.keepIndices
          /\ fResult' = r.value
          /\ fCalls' = r.calls
    /\ UNCHANGED <<fQuery, fProvided, fItems>>
    /\ UNCHANGED nonFilterVars

FilterNext == ApplyIntentFilterToItems

FilterSpec == FilterInit /\ [][FilterNext]_vars

(***************************************************************************)
(* Claims about the relevance filter.                                      *)
(***************************************************************************)
Filtered == fStatus \in {"returned", "thrown"}

\* the intent the filter is given
FilterIntent == fResult.resolvedIntent.intent

\* C21: filterItemsByIntent returns keepIndices = null and calls no model
\* whenever the query is undefined or empty, or the intent is unknown, or the
\* item list is empty.
C21_FilterBypassedWithoutModelCall ==
    (Filtered /\ (~fQuery.present \/ fQuery.text = <<>> \/ FilterIntent = "unknown"
                    \/ fItems = <<>>)) =>
        /\ fKeep.null
        /\ \A k \in 1..Len(fCalls) : fCalls[k] # "filter"

\* a classified intent of unknown bypasses the filter though items and a
\* query are there
C21_Witness ==
    /\ fStatus = "returned"
    /\ fQuery = Present(<<"q">>)
    /\ fProvided = Present(<<"x">>)
    /\ Len(fItems) = MaxItems
    /\ fCalls = <<"parsed">>
    /\ FilterIntent = "unknown"
    /\ fKeep.null

\* the filter's model was called and the call or the parsing of its reply failed
FilterCallFailed ==
    /\ Filtered
    /\ \E k \in 1..Len(fCalls) : fCalls[k] = "filter"
    /\ fReply.kind # "parsed"

\* C22: when the filter's model call fails or its response cannot be parsed,
\* filterItemsByIntent returns null and applyIntentFilterToItems keeps every
\* item and does not raise.
C22_FilterFailureKeepsEveryItem ==
    FilterCallFailed =>
        /\ fStatus = "returned"
        /\ fKeep.null
        /\ fResult.filteredItems = fItems
        /\ fResult.filteredOutCount = 0
        /\ ~fResult.intentFilterApplied

C22_Witness ==
    /\ FilterCallFailed
    /\ fReply.kind = "unparsable"
    /\ Len(fItems) = MaxItems
    /\ fResult.filteredItems = fItems

\* the filter's model was called and its reply parsed
FilterCallParsed ==
    /\ Filtered
    /\ \E k \in 1..Len(fCalls) : fCalls[k] = "filter"
    /\ fReply.kind = "parsed"

\* C23: for a parsed reply over n items the keep set is exactly the 0-based
\* indices k such that the reply holds the integer k+1 with 1 <= k+1 <= n; so
\* it is a subset of 0..n-1, and the items kept are those at these indices.
C23_KeepSetIsTheValidIndices ==
    FilterCallParsed =>
        /\ ~fKeep.null
        /\ fKeep.indices \subseteq 0..(Len(fItems) - 1)
        /\ \A k \in 0..(Len(fItems) - 1) :
              (k \in fKeep.indices) <=>
                 (\E j \in 1..Len(fReply.keep) : fReply.keep[j] = Whole(k + 1))
        /\ Len(fResult.filteredItems) = Cardinality(fKeep.indices)
        /\ fStatus = "returned"

\* a reply holding a fraction and an index beyond the list keeps nothing
C23_Witness ==
    /\ FilterCallParsed
    /\ Len(fItems) = MaxItems
    /\ fReply.keep = <<3, Whole(MaxItems + 1)>>
    /\ fKeep.indices = {}
    /\ fResult.filteredItems = <<>>

\* a reply holding the same index twice keeps the item once
C23_WitnessDuplicate ==
    /\ FilterCallParsed
    /\ fReply.keep = <<Whole(1), Whole(1)>>
    /\ fKeep.indices = {0}
    /\ Len(fResult.filteredItems) = 1

(***************************************************************************)
(* One call of detectTimeRanges over a store whose earliest and latest     *)
(* iso_date the environment chooses, with the model's reply.               *)
(***************************************************************************)
TimeInit ==
    /\ RunIdle
    /\ GuardIdle
    /\ ToolIdle
    /\ PlainIdle
    /\ PostIdle
    /\ ResolveIdle
    /\ FilterIdle
    /\ ClusterIdle
    /\ ChatIdle
    /\ RunsIdle
    /\ TopIdle
    /\ TypesIdle
    /\ DocsIdle
    /\ CacheIdle
    /\ trStore \in StoreRanges
    /\ trStatus = "ready"
    /\ trReply = [kind |-> "rejects", extracted |-> NoExtraction]
    /\ trSource = "none"
    /\ trRanges = NoRanges

DetectTimeRanges ==
    /\ trStatus = "ready"
    /\ \E outcome \in TimeModelOutcomes :
          LET r == detectTimeRanges(trStore, outcome) IN
          /\ trStatus' = "returned"
          /\ trReply' = outcome
          /\ trSource' = r.source
          /\ trRanges' = [earlier |-> r.earlier, later |-> r.later]
    /\ UNCHANGED trStore
    /\ UNCHANGED nonTimeVars

TimeNext == DetectTimeRanges

TimeSpec == TimeInit /\ [][TimeNext]_vars

(***************************************************************************)
(* Claims about detectTimeRanges.                                          *)
(***************************************************************************)
\* a < b as the store compares
textLt(a, b) == textLte(a, b) /\ a # b

\* C24: when detectTimeRanges falls back to the midpoint split over a store
\* whose earliest iso_date is strictly before its latest, the ranges satisfy
\* earlier.start <= earlier.end <= later.start <= later.end under the store's
\* comparison.
C24_MidpointRangesOrdered ==
    (/\ trStatus = "returned"
     /\ trSource = "midpoint"
     /\ ~trStore.empty
     /\ textLt(trStore.earliest, trStore.latest)) =>
        /\ textLte(trRanges.earlier.start, trRanges.earlier.end)
        /\ textLte(trRanges.earlier.end, trRanges.later.start)
        /\ textLte(trRanges.later.start, trRanges.later.end)

\* a date lies in the store's observed range
InStoreRange(date) ==
    /\ textLte(earliestInDb(trStore), date)
    /\ textLte(date, latestInDb(trStore))

\* C25: both ranges returned by detectTimeRanges lie within the store's
\* observed date range (or [2000-01-01, today] for an empty store), whether
\* extracted by the model or from the midpoint fallback.
C25_RangesWithinStoreRange ==
    trStatus = "returned" =>
        /\ InStoreRange(trRanges.earlier.start)
        /\ InStoreRange(trRanges.earlier.end)
        /\ InStoreRange(trRanges.later.start)
        /\ InStoreRange(trRanges.later.end)

(***************************************************************************)
(* Calls of detectClusterFromQuery with one query and history, one after   *)
(* the other, over a store, a model and a configuration that do not        *)
(* change: identical requests are answered identically.                    *)
(***************************************************************************)
ClusterInit ==
    /\ RunIdle
    /\ GuardIdle
    /\ ToolIdle
    /\ PlainIdle
    /\ PostIdle
    /\ ResolveIdle
    /\ FilterIdle
    /\ TimeIdle
    /\ ChatIdle
    /\ RunsIdle
    /\ TopIdle
    /\ TypesIdle
    /\ DocsIdle
    /\ CacheIdle
    /\ cdModel \in HintModelOutcomes
    /\ cdStore \in ClusterStores
    /\ cdConfig \in {"ok", "missing"}
    /\ cdMinScore \in MinSimilarityScores
    /\ cachedClient = FALSE
    /\ vectorStorePromise = "null"
    /\ cdResults = <<>>

DetectClusterFromQuery ==
    /\ Len(cdResults) < MaxDetectorCalls
    /\ LET r == detectClusterWithScore(cdModel, cdStore, cdConfig, cdMinScore,
                                       cachedClient, vectorStorePromise) IN
       /\ cdResults' = Append(cdResults,
                              [thrown |-> r.thrown, value |-> r.value,
                               searches |-> r.searches, verified |-> r.verified])
       /\ cachedClient' = r.cachedClient
       /\ vectorStorePromise' = r.vectorStorePromise
    /\ UNCHANGED <<cdModel, cdStore, cdConfig, cdMinScore>>
    /\ UNCHANGED nonClusterVars

ClusterNext == DetectClusterFromQuery

ClusterSpec == ClusterInit /\ [][ClusterNext]_vars

(***************************************************************************)
(* Claims about the Cluster Detector.                                      *)
(***************************************************************************)
\* the hint the model's reply yields: "" when none
ExtractedHint == extractClusterHint(cdModel)

\* (a) a hint was extracted and the lookup finds a document of that cluster
HintConfirmed ==
    /\ ExtractedHint # ""
    /\ ~cdStore.lookupError
    /\ ExtractedHint \in cdStore.clusters

\* (b) the top hit of the search scores at or above minSimilarityScore
HitAccepted == cdStore.topHit.found /\ cdStore.topHit.score >= cdMinScore

\* C26: a call that returns gives a non-empty label only (a) as the confirmed
\* hint, without any vector search, or (b) otherwise as the cluster label of
\* the top hit of a single search whose score is at or above
\* minSimilarityScore; in every other case it gives the empty string.
C26_LabelOnlyFromConfirmedHintOrAcceptedHit ==
    \A k \in 1..Len(cdResults) :
        LET r == cdResults[k] IN
        ~r.thrown =>
            /\ HintConfirmed => (r.value = ExtractedHint /\ r.searches = 0)
            /\ (~HintConfirmed /\ HitAccepted) =>
                  (r.value = cdStore.topHit.cluster /\ r.searches = 1)
            /\ (~HintConfirmed /\ ~HitAccepted) => (r.value = "" /\ r.searches = 1)

\* a hit scoring exactly the default threshold is accepted when the hint is
\* not in the store
C26_Witness ==
    /\ Len(cdResults) >= 1
    /\ ~cdResults[1].thrown
    /\ ExtractedHint = "pizza"
    /\ "pizza" \notin cdStore.clusters
    /\ cdMinScore = DefaultMinSimilarityScore
    /\ cdStore.topHit = [found |-> TRUE, cluster |-> "sushi", score |-> DefaultMinSimilarityScore]
    /\ cdResults[1].value = "sushi"

\* C27: two calls of the Cluster Detector with the same query and history,
\* the store, the model and the vector search unchanged, give the same label
\* (or fail alike).
C27_DetectorIdempotent ==
    \A j, k \in 1..Len(cdResults) :
        /\ cdResults[j].thrown = cdResults[k].thrown
        /\ cdResults[j].value = cdResults[k].value

\* the first call created the vector store, the second used the cached one
C27_Witness ==
    /\ Len(cdResults) >= 2
    /\ ~cdResults[1].thrown
    /\ cdResults[1].value = "pizza"
    /\ cdResults[1].searches = 1
    /\ cdResults[2].value = "pizza"
    /\ vectorStorePromise = "resolved"

(***************************************************************************)
(* The Chat component.  A render follows every batch of state updates; the *)
(* memoised handleSubmit is created anew in a render whose input or        *)
(* isLoading differs from the previous render's, and otherwise keeps what  *)
(* it closed over.  Text typed is a sequence of tokens: " " white space,   *)
(* "<b>" a tag, "q" other text.                                            *)
(***************************************************************************)
ChatInputs == {<<>>, <<" ">>, <<"q">>, <<"q", " ">>, <<"<b>", "q">>}
ChatAnswers == {<<"answer">>}
ChatErrors == {<<"error">>}

\* /\s+/g -> " "
RECURSIVE collapseWhitespace(_)
collapseWhitespace(str) ==
    IF Len(str) < 2 THEN str
    ELSE IF str[1] = " " /\ str[2] = " " THEN collapseWhitespace(Tail(str))
    ELSE <<Head(str)>> \o collapseWhitespace(Tail(str))

\* sanitizeText: tags become a space, white space is collapsed and trimmed
sanitizeText(str) ==
    IF str = <<>> THEN <<>>
    ELSE trim(collapseWhitespace([k \in 1..Len(str) |->
                                     IF str[k] = "<b>" THEN " " ELSE str[k]]))

ChatMessage(role, content) == [role |-> role, content |-> content]

\* useCallback(..., [input, isLoading]) in a render
useCallbackMutKeepsMessages(previous, renderedInput, renderedLoading, renderedMessages) ==
    [input |-> renderedInput, isLoading |-> renderedLoading,
     messages |-> previous.messages]

useCallback(previous, renderedInput, renderedLoading, renderedMessages) ==
    IF previous.input # renderedInput \/ previous.isLoading # renderedLoading
    THEN [input |-> renderedInput, isLoading |-> renderedLoading,
          messages |-> renderedMessages]
    ELSE previous

\* what the page holds after it is loaded
Mounted ==
    /\ chatMessages = <<>>
    /\ chatInput = <<>>
    /\ isLoading = FALSE
    /\ handleSubmit = [input |-> <<>>, isLoading |-> FALSE, messages |-> <<>>]
    /\ pending = FALSE
    /\ transcript = <<>>

ChatInit ==
    /\ RunIdle
    /\ GuardIdle
    /\ ToolIdle
    /\ PlainIdle
    /\ PostIdle
    /\ ResolveIdle
    /\ FilterIdle
    /\ TimeIdle
    /\ ClusterIdle
    /\ RunsIdle
    /\ TopIdle
    /\ TypesIdle
    /\ DocsIdle
    /\ CacheIdle
    /\ Mounted
    /\ requests = <<>>

\* onChange of the input, which is disabled while loading
ChatType ==
    /\ ~isLoading
    /\ \E typed \in ChatInputs :
          /\ chatInput' = typed
          /\ handleSubmit' = useCallback(handleSubmit, typed, isLoading, chatMessages)
    /\ UNCHANGED <<chatMessages, isLoading, pending, requests, transcript>>
    /\ UNCHANGED nonChatVars

\* handleSubmit up to the fetch
ChatSubmit ==
    /\ Len(requests) < MaxChatRequests
    /\ LET trimmedInput == trim(handleSubmit.input)
           userMessage == ChatMessage("user", sanitizeText(trimmedInput))
           history == handleSubmit.messages
       IN
       /\ trimmedInput # <<>>
       /\ ~handleSubmit.isLoading
       /\ chatMessages' = Append(chatMessages, userMessage)
       /\ chatInput' = <<>>
       /\ isLoading' = TRUE
       /\ requests' = Append(requests, [query |-> trimmedInput, history |-> history,
                                        earlier |-> transcript])
       /\ transcript' = Append(transcript, userMessage)
       /\ pending' = TRUE
       /\ handleSubmit' = useCallback(handleSubmit, <<>>, TRUE,
                                      Append(chatMessages, userMessage))
    /\ UNCHANGED nonChatVars

\* the response is read: data.answer on success, else data.error
ChatResponse ==
    /\ pending
    /\ \E content \in ChatAnswers \cup ChatErrors :
          LET assistantMessage == ChatMessage("assistant", content) IN
          /\ chatMessages' = Append(chatMessages, assistantMessage)
          /\ transcript' = Append(transcript, assistantMessage)
          /\ handleSubmit' = useCallback(handleSubmit, chatInput, FALSE,
                                         Append(chatMessages, assistantMessage))
    /\ isLoading' = FALSE
    /\ pending' = FALSE
    /\ UNCHANGED <<chatInput, requests>>
    /\ UNCHANGED nonChatVars

\* fetch or response.json() rejects: catch
ChatFailure ==
    /\ pending
    /\ LET errorMessage == ChatMessage("assistant", <<"Failed to connect">>) IN
       /\ chatMessages' = Append(chatMessages, errorMessage)
       /\ transcript' = Append(transcript, errorMessage)
       /\ handleSubmit' = useCallback(handleSubmit, chatInput, FALSE,
                                      Append(chatMessages, errorMessage))
    /\ isLoading' = FALSE
    /\ pending' = FALSE
    /\ UNCHANGED <<chatInput, requests>>
    /\ UNCHANGED nonChatVars

\* handleReload, or the browser's reload: the page starts anew and a response
\* still awaited is dropped
ChatReload ==
    /\ chatMessages' = <<>>
    /\ chatInput' = <<>>
    /\ isLoading' = FALSE
    /\ handleSubmit' = [input |-> <<>>, isLoading |-> FALSE, messages |-> <<>>]
    /\ pending' = FALSE
    /\ transcript' = <<>>
    /\ UNCHANGED requests
    /\ UNCHANGED nonChatVars

ChatNext ==
    \/ ChatType
    \/ ChatSubmit
    \/ ChatResponse
    \/ ChatFailure
    \/ ChatReload

ChatSpec == ChatInit /\ [][ChatNext]_vars

(***************************************************************************)
(* Claims about the Chat component.                                        *)
(***************************************************************************)
\* C29: the history of every request the Chat component sends is exactly the
\* sequence of the messages (user and assistant) shown earlier since the page
\* was loaded, in order and without the message being sent; so the first
\* request after a reload carries an empty history.
C29_HistoryIsTheEarlierMessages ==
    \A k \in 1..Len(requests) : requests[k].history = requests[k].earlier

\* a second request sent after a failed first one carries both earlier messages
C29_Witness ==
    /\ Len(requests) >= 2
    /\ requests[2].history = <<ChatMessage("user", <<"q">>),
                               ChatMessage("assistant", <<"Failed to connect">>)>>
    /\ requests[2].query = <<"<b>", "q">>

\* a request sent after a reload that followed an exchange
C29_WitnessReload ==
    /\ Len(requests) >= 2
    /\ requests[1].history = <<>>
    /\ requests[2].history = <<>>

(***************************************************************************)
(* Concurrent runs in one server process.  Each run detects its cluster    *)
(* with detectClusterFromQuery; a step is the code between two awaits.     *)
(* The runs share cachedClient and vectorStorePromise of the store module; *)
(* the configuration (process.env, read by requiredEnv at each             *)
(* initialisation) can be completed while the process runs.                *)
(***************************************************************************)
Runs == 1..MaxRuns

SharedModels ==
    { o \in HintModelOutcomes : o.kind = "parsed" /\ o.cluster \in {"", "pizza"} }
SharedStores ==
    { s \in ClusterStores :
        /\ ~s.lookupError
        /\ s.topHit \in {NoHit, [found |-> TRUE, cluster |-> "sushi",
                                 score |-> DefaultMinSimilarityScore]} }

NoOutcome == [status |-> "pending", value |-> "", at |-> "none"]
Labelled(value) == [status |-> "returned", value |-> value, at |-> "none"]
Rejected(at) == [status |-> "rejected", value |-> "", at |-> at]

SharedInit ==
    /\ RunIdle
    /\ GuardIdle
    /\ ToolIdle
    /\ PlainIdle
    /\ PostIdle
    /\ ResolveIdle
    /\ FilterIdle
    /\ TimeIdle
    /\ ChatIdle
    /\ TopIdle
    /\ TypesIdle
    /\ DocsIdle
    /\ CacheIdle
    /\ cdModel \in SharedModels
    /\ cdStore \in SharedStores
    /\ cdConfig \in {"ok", "missing"}
    /\ cdMinScore = DefaultMinSimilarityScore
    /\ cachedClient = FALSE
    /\ vectorStorePromise = "null"
    /\ cdResults = <<>>
    /\ runPc = [r \in Runs |-> "ready"]
    /\ runConfig = [r \in Runs |-> "none"]
    /\ runOutcome = [r \in Runs |-> NoOutcome]

\* await extractClusterHint(query, history)
RunExtractHint ==
    \E r \in Runs :
        /\ runPc[r] = "ready"
        /\ runPc' = [runPc EXCEPT ![r] = "hinted"]
        /\ UNCHANGED <<runConfig, runOutcome>>
        /\ UNCHANGED clusterVars
        /\ UNCHANGED nonRunsVars

\* with a hint: getSupabaseClient() and the lookup is sent
RunLookupHint ==
    \E r \in Runs :
        /\ runPc[r] = "hinted"
        /\ extractClusterHint(cdModel) # ""
        /\ LET client == getSupabaseClient(cdConfig, cachedClient) IN
           /\ cachedClient' = client.cachedClient
           /\ runPc' = [runPc EXCEPT ![r] = IF client.thrown THEN "done" ELSE "verifying"]
           /\ runOutcome' = [runOutcome EXCEPT ![r] =
                                IF client.thrown THEN Rejected("client") ELSE @]
        /\ UNCHANGED <<runConfig, cdModel, cdStore, cdConfig, cdMinScore,
                       vectorStorePromise, cdResults>>
        /\ UNCHANGED nonRunsVars

\* the lookup answered and found a document: the hint is returned
RunHintConfirmed ==
    \E r \in Runs :
        /\ runPc[r] = "verifying"
        /\ extractClusterHint(cdModel) \in cdStore.clusters
        /\ runPc' = [runPc EXCEPT ![r] = "done"]
        /\ runOutcome' = [runOutcome EXCEPT ![r] = Labelled(extractClusterHint(cdModel))]
        /\ UNCHANGED runConfig
        /\ UNCHANGED clusterVars
        /\ UNCHANGED nonRunsVars

\* no hint, or the lookup found nothing: getVectorStore() up to its await
RunGetVectorStore ==
    \E r \in Runs :
        /\ \/ runPc[r] = "hinted" /\ extractClusterHint(cdModel) = ""
           \/ runPc[r] = "verifying" /\ extractClusterHint(cdModel) \notin cdStore.clusters
        /\ LET vs == getVectorStore(cdConfig, cachedClient, vectorStorePromise) IN
           /\ cachedClient' = vs.cachedClient
           /\ vectorStorePromise' = vs.vectorStorePromise
        /\ runConfig' = [runConfig EXCEPT ![r] = cdConfig]
        /\ runPc' = [runPc EXCEPT ![r] = "awaiting"]
        /\ UNCHANGED <<runOutcome, cdModel, cdStore, cdConfig, cdMinScore, cdResults>>
        /\ UNCHANGED nonRunsVars

\* the vector store promise settles; the search and the score test
RunSearch ==
    \E r \in Runs :
        /\ runPc[r] = "awaiting"
        /\ runPc' = [runPc EXCEPT ![r] = "done"]
        /\ runOutcome' = [runOutcome EXCEPT ![r] =
              IF vectorStorePromise = "rejected" THEN Rejected("vector store")
              ELSE IF cdStore.topHit.found /\ cdStore.topHit.score >= cdMinScore
              THEN Labelled(cdStore.topHit.cluster)
              ELSE Labelled("")]
        /\ UNCHANGED runConfig
        /\ UNCHANGED clusterVars
        /\ UNCHANGED nonRunsVars

\* the missing environment variables are set
ConfigLoaded ==
    /\ cdConfig = "missing"
    /\ cdConfig' = "ok"
    /\ UNCHANGED <<cdModel, cdStore, cdMinScore, cachedClient, vectorStorePromise,
                   cdResults>>
    /\ UNCHANGED runsVars
    /\ UNCHANGED nonRunsVars

SharedNext ==
    \/ RunExtractHint
    \/ RunLookupHint
    \/ RunHintConfirmed
    \/ RunGetVectorStore
    \/ RunSearch
    \/ ConfigLoaded

SharedSpec == SharedInit /\ [][SharedNext]_vars

(***************************************************************************)
(* Claims about concurrent runs.                                           *)
(***************************************************************************)
\* C28: no step of another run, a failed initialisation of the store or the
\* client included, changes a run's outcome: a run is refused the vector store
\* only when its own initialisation would fail, that is when the
\* configuration was missing as the run asked for the vector store.
C28_RunsIndependent ==
    \A r \in DOMAIN runOutcome :
        (runOutcome[r].status = "rejected" /\ runOutcome[r].at = "vector store") =>
            runConfig[r] = "missing"

(***************************************************************************)
(* C31.  A STANDARD run is at END if and only if the tool-bound model has  *)
(* returned a response with no tool calls: END is reached only after such  *)
(* a response (a model that requests a tool in every response never lets   *)
(* the run end), and once such a response is returned a run that has not   *)
(* failed is at END.                                                       *)
(***************************************************************************)
C31_DoneIffPlainResponse ==
    (BranchesExecuted = {"STANDARD"} /\ pc # "ABORTED") =>
        ((pc = "END") <=> (\E k \in 1..Len(Returned) : IsPlain(Returned[k])))

(***************************************************************************)
(* C32.  Each attempt's input is the original input with the repairs of    *)
(* the failed attempts before it: a string input keeps the original text   *)
(* as a prefix and gains one notice naming the error per failed attempt;   *)
(* a list input keeps the original messages as a prefix, in order, and     *)
(* gains the notice as new messages per failed attempt; any other input    *)
(* is passed to every attempt unmodified.                                  *)
(***************************************************************************)
FailureOf(call) == IF call.output.thrown THEN "model error" ELSE "parse error"

IsPrefix(s, t) == Len(s) <= Len(t) /\ SubSeq(t, 1, Len(s)) = s

C32_RetryInputExtendsOriginal ==
    \A k \in 1..Len(gCalls) :
        LET inp == gCalls[k].input
            n == Len(gInput.body)
        IN  /\ inp.kind = gInput.kind
            /\ IsPrefix(gInput.body, inp.body)
            /\ (k > 1) => IsPrefix(gCalls[k - 1].input.body, inp.body)
            /\ (gInput.kind = "string") =>
                  /\ Len(inp.body) = n + (k - 1)
                  /\ \A j \in 1..(k - 1) : inp.body[n + j] = FailureOf(gCalls[j])
            /\ (gInput.kind = "list") =>
                  /\ Len(inp.body) = n + 2 * (k - 1)
                  /\ \A j \in 1..(k - 1) :
                        /\ inp.body[n + 2 * j - 1] = "AIMessage(...)"
                        /\ inp.body[n + 2 * j] = FailureOf(gCalls[j])
            /\ (gInput.kind = "object") => inp = gInput

C32_Witness ==
    /\ Len(gCalls) >= 3
    /\ gInput.kind = "list"
    /\ gCalls[1].output.thrown
    /\ ~gCalls[2].output.thrown
    /\ gCalls[3].input.body # gCalls[2].input.body

(***************************************************************************)
(* C33.  A failure inside the Cluster Detector never reaches its caller:   *)
(* every call returns, and a call whose hint extraction failed and whose   *)
(* store or vector lookup could not be made returns the empty cluster.     *)
(***************************************************************************)
C33_DetectorFailureFallsBack ==
    \A k \in 1..Len(cdResults) :
        /\ ~cdResults[k].thrown
        /\ (cdModel.kind # "parsed" /\ cdConfig = "missing") => cdResults[k].value = ""

(***************************************************************************)
(* C34.  STRATEGY and COMPARISON runs are fixed pipelines.  Once the       *)
(* router has chosen such a branch, only the branch node is executed, at   *)
(* most once, and never the tools, standard_agent or standard_response     *)
(* nodes; a branch node that completes has issued exactly one              *)
(* answer-generating model call, as the last model call of the run, and    *)
(* the run is at END.  The STRATEGY branch queries the detected cluster,   *)
(* or "General" when none is detected, and fetches at most 100 documents;  *)
(* the COMPARISON branch fetches at most 20 documents per period.          *)
(***************************************************************************)
AnsweringCalls(site) == SelectSeq(modelCalls, LAMBDA c : c.site = site)

C34_FixedPipelines ==
    \A b \in {"strategy", "comparison"} :
        (Len(executed) >= 1 /\ intent = IF b = "strategy" THEN "STRATEGY" ELSE "COMPARISON") =>
            /\ Len(executed) <= 2
            /\ executed[1] = "router"
            /\ (Len(executed) = 1) => (pc = b /\ retrieved = <<>>)
            /\ (Len(executed) = 2) =>
                  /\ executed[2] = b
                  /\ pc \in {"END", "ABORTED"}
                  /\ modelLog = <<>> /\ toolLog = <<>>
                  /\ Len(retrieved) <= 1
                  /\ (pc = "END") =>
                        /\ Len(AnsweringCalls(b)) = 1
                        /\ modelCalls[Len(modelCalls)].site = b
                        /\ Len(responses) = 1
                        /\ answer = responses[1]
                        /\ Len(retrieved) = 1
                  /\ \A k \in 1..Len(retrieved) :
                        LET r == retrieved[k] IN
                        /\ r.node = b
                        /\ (b = "strategy") =>
                              /\ Len(r.fetched) = 1
                              /\ r.fetched[1] <= StrategyLimit
                              /\ r.fetched[1] <= r.rows[1]
                              /\ r.cluster = (IF r.detected = "" THEN "General" ELSE r.detected)
                        /\ (b = "comparison") =>
                              /\ Len(r.fetched) = 2
                              /\ \A period \in 1..2 :
                                    /\ r.fetched[period] <= ComparisonLimit
                                    /\ r.fetched[period] <= r.rows[period]

\* a STRATEGY run over a cluster of more than 100 rows with no cluster detected
C34_Witness ==
    /\ pc = "END"
    /\ executed = <<"router", "strategy">>
    /\ Len(retrieved) = 1
    /\ retrieved[1].detected = ""
    /\ retrieved[1].cluster = "General"
    /\ retrieved[1].rows[1] > StrategyLimit
    /\ retrieved[1].fetched[1] = StrategyLimit

(***************************************************************************)
(* get_top_performers over a store of rows (tools.ts 76-133).  A row is    *)
(* [position, inCluster, inQuery]: its metadata.position, whether its      *)
(* cluster matches the cluster pattern, and whether its query matches the  *)
(* query pattern.  The filters on metadata->>position compare the text of  *)
(* the position with the text of the bound.                                *)
(***************************************************************************)
DefaultTopLimit == 10
TopPositions == {1, 4, 10}
TopRows == [position : TopPositions, inCluster : BOOLEAN, inQuery : BOOLEAN]

\* stores of at most MaxTopRows rows
TopStores == { rows \in SUBSET TopRows : Cardinality(rows) <= MaxTopRows }

TopArgs ==
    [cluster : {Undefined, "pizza"}, query : {Undefined, "q", " "},
     limit : 0..MaxTopLimit]

TopEnvironments ==
    [rows : TopStores, client : {"ok", "throws"},
     detected : {"", "pizza", "throws"},
     lookupErrors : {{}, {"cluster"}, {"query"}}]

\* the decimal text of a position below 100, and the order of texts
numeral(n) == IF n < 10 THEN <<n>> ELSE <<n \div 10, n % 10>>

numeralLte(a, b) ==
    LET s == numeral(a)
        t == numeral(b)
    IN  \/ s[1] < t[1]
        \/ s[1] = t[1] /\ Len(s) = 1
        \/ s[1] = t[1] /\ Len(s) = 2 /\ Len(t) = 2 /\ s[2] <= t[2]

\* .lte("metadata->>position", 3).gte("metadata->>position", 1)
positionFilter(position) == numeralLte(position, 3) /\ numeralLte(1, position)

\* .limit(limit || 10)
topLimit(lim) == IF lim # 0 THEN lim ELSE DefaultTopLimit

\* the results a lookup may return: the first topLimit matching rows
lookupResults(matching, lim) ==
    { res \in SUBSET matching :
        Cardinality(res) = (IF Cardinality(matching) < topLimit(lim)
                            THEN Cardinality(matching) ELSE topLimit(lim)) }

TopReturns(kind, results, lookups) ==
    [thrown |-> FALSE, kind |-> kind, results |-> results, lookups |-> lookups]

\* the outcomes of getTopPerformersTool.func
getTopPerformers(args, env) ==
    IF env.client = "throws"
    THEN { [thrown |-> TRUE, kind |-> "exception", results |-> {}, lookups |-> <<>>] }
    ELSE
      LET label == normalizeClusterLabel(args.cluster)
          detects == label = "" /\ Truthy(args.query)
          filterCluster == IF label # "" THEN label
                           ELSE IF detects /\ env.detected # "throws" THEN env.detected
                           ELSE ""
          byCluster == { r \in env.rows : positionFilter(r.position) /\ r.inCluster }
          byQuery == { r \in env.rows : positionFilter(r.position) /\ r.inQuery }
          queryLookup(lookups) ==
              IF "query" \in env.lookupErrors
              THEN { TopReturns("{error}", {}, Append(lookups, "query")) }
              ELSE { TopReturns(IF res = {} THEN "{warning}" ELSE "results", res,
                                Append(lookups, "query")) :
                        res \in lookupResults(byQuery, args.limit) }
          afterCluster(results, lookups) ==
              IF results = {} /\ Truthy(args.query) /\ Trim(args.query) # ""
              THEN queryLookup(lookups)
              ELSE { TopReturns(IF results = {} THEN "{warning}" ELSE "results",
                                results, lookups) }
      IN  IF detects /\ env.detected = "throws"
          THEN { TopReturns("{error}", {}, <<>>) }
          ELSE IF filterCluster # ""
          THEN IF "cluster" \in env.lookupErrors
               THEN { TopReturns("{error}", {}, <<"cluster">>) }
               ELSE UNION { afterCluster(res, <<"cluster">>) :
                               res \in lookupResults(byCluster, args.limit) }
          ELSE afterCluster({}, <<>>)

TopInit ==
    /\ RunIdle
    /\ GuardIdle
    /\ ToolIdle
    /\ PlainIdle
    /\ PostIdle
    /\ ResolveIdle
    /\ FilterIdle
    /\ TimeIdle
    /\ ClusterIdle
    /\ ChatIdle
    /\ RunsIdle
    /\ TypesIdle
    /\ TypesIdle
    /\ DocsIdle
    /\ DocsIdle
    /\ CacheIdle
    /\ CacheIdle
    /\ tpArgs \in TopArgs
    /\ tpEnv \in TopEnvironments
    /\ tpStatus = "ready"
    /\ tpResult = [thrown |-> FALSE, kind |-> "none", results |-> {}, lookups |-> <<>>]

InvokeTopPerformers ==
    /\ tpStatus = "ready"
    /\ tpResult' \in getTopPerformers(tpArgs, tpEnv)
    /\ tpStatus' = "done"
    /\ UNCHANGED <<tpArgs, tpEnv>>
    /\ UNCHANGED nonTopVars

TopNext == InvokeTopPerformers

TopSpec == TopInit /\ [][TopNext]_vars

(***************************************************************************)
(* C35.  get_top_performers returns only documents whose position is       *)
(* between 1 and 3, and at most limit of them; the query-substring lookup  *)
(* is made exactly when the cluster-filtered lookup produced no results    *)
(* and the query is non-blank; when the lookups produce nothing the result *)
(* is a warning payload with an empty result list; a store error in a      *)
(* lookup is returned as an {error} payload.                               *)
(***************************************************************************)
TopDone == tpStatus = "done" /\ ~tpResult.thrown

\* the rows the cluster-filtered lookup matches
TopClusterMatches == { r \in tpEnv.rows : positionFilter(r.position) /\ r.inCluster }

C35_TopPerformersContract ==
    TopDone =>
        /\ \A r \in tpResult.results : 1 <= r.position /\ r.position <= 3
        /\ Cardinality(tpResult.results) <= tpArgs.limit
        /\ (tpResult.kind = "{warning}") <=>
              (tpResult.results = {} /\ tpResult.kind # "{error}")
        /\ (\E k \in 1..Len(tpResult.lookups) :
               tpResult.lookups[k] \in tpEnv.lookupErrors) => tpResult.kind = "{error}"
        /\ LET made == \E k \in 1..Len(tpResult.lookups) : tpResult.lookups[k] = "query"
               clusterEmpty ==
                   \/ \A k \in 1..Len(tpResult.lookups) : tpResult.lookups[k] # "cluster"
                   \/ TopClusterMatches = {}
               nonBlank == Truthy(tpArgs.query) /\ Trim(tpArgs.query) # ""
           IN  (tpResult.kind # "{error}" \/ made) => (made <=> (clusterEmpty /\ nonBlank))

(***************************************************************************)
(* analyze_content_types from its classification call on (tools.ts         *)
(* 321-392).  The reply of the model is                                    *)
(*   "throws"     model.invoke rejects                                     *)
(*   "no_json"    no text between a first "{" and a last "}" that parses   *)
(*   "bad_shape"  a JSON object whose content_type_analysis is not         *)
(*                iterable                                                 *)
(*   "no_list"    a JSON object without content_type_analysis              *)
(*   "list"       a JSON object with a list of analyses                    *)
(* An analysis is [content_type, position, domain].                        *)
(***************************************************************************)
ContentTypes == {"Guide", "Video"}
AnalysisPositions == {1, 4}
Analyses == [content_type : ContentTypes, position : AnalysisPositions, domain : {"a.com"}]

ClassificationReplies ==
    { [kind |-> k, analyses |-> <<>>] : k \in {"throws", "no_json", "bad_shape", "no_list"} }
      \cup { [kind |-> "list", analyses |-> an] :
                an \in UNION { [1..n -> Analyses] : n \in 0..MaxAnalyses } }

\* the keys of contentTypes, in the order the loop creates them
RECURSIVE typeKeys(_, _)
typeKeys(analyses, k) ==
    IF k = 0 THEN <<>>
    ELSE LET before == typeKeys(analyses, k - 1) IN
         IF \E j \in 1..Len(before) : before[j] = analyses[k].content_type
         THEN before
         ELSE Append(before, analyses[k].content_type)

\* examples: pushed while the list holds less than one
examplesOfMutEvery(analyses, indices) ==
    [k \in 1..Len(indices) |-> <<analyses[indices[k]].domain, analyses[indices[k]].position>>]
examplesOf(analyses, indices) ==
    <<<<analyses[indices[1]].domain, analyses[indices[1]].position>>>>

\* the indices of the analyses of one type, ascending
indicesOf(analyses, type) ==
    SelectSeq([k \in 1..Len(analyses) |-> k], LAMBDA k : analyses[k].content_type = type)

\* one element of the breakdown before sorting
breakdownEntry(analyses, type) ==
    LET indices == indicesOf(analyses, type) IN
    [content_type |-> type,
     count |-> Len(indices),
     top_3_count |-> Len(SelectSeq(indices, LAMBDA k : analyses[k].position <= 3)),
     examples |-> examplesOf(analyses, indices)]

\* .sort((a, b) => b.count - a.count): stable, by count descending
RECURSIVE insertByCount(_, _)
insertByCount(sorted, e) ==
    IF sorted = <<>> THEN <<e>>
    ELSE IF sorted[Len(sorted)].count >= e.count THEN Append(sorted, e)
    ELSE Append(insertByCount(SubSeq(sorted, 1, Len(sorted) - 1), e), sorted[Len(sorted)])

RECURSIVE sortByCount(_, _)
sortByCount(entries, k) ==
    IF k = 0 THEN <<>> ELSE insertByCount(sortByCount(entries, k - 1), entries[k])

contentTypeBreakdown(analyses) ==
    LET keys == typeKeys(analyses, Len(analyses))
        entries == [k \in 1..Len(keys) |-> breakdownEntry(analyses, keys[k])]
    IN  sortByCount(entries, Len(entries))

\* [thrown, kind, total, breakdown, calls]
analyzeContentTypes(env, reply) ==
    LET gives(thrown, kind, total, breakdown, calls) ==
            [thrown |-> thrown, kind |-> kind, total |-> total,
             breakdown |-> breakdown, calls |-> calls]
    IN  CASE env # "rows" -> gives(FALSE, "{error}", 0, <<>>, 0)
          [] env = "rows" /\ reply.kind = "throws" -> gives(TRUE, "exception", 0, <<>>, 1)
          [] env = "rows" /\ reply.kind = "no_json" -> gives(FALSE, "{error}", 0, <<>>, 1)
          [] env = "rows" /\ reply.kind = "bad_shape" -> gives(TRUE, "exception", 0, <<>>, 1)
          [] OTHER -> gives(FALSE, "content_type_breakdown", Len(reply.analyses),
                            contentTypeBreakdown(reply.analyses), 1)

TypesInit ==
    /\ RunIdle
    /\ GuardIdle
    /\ ToolIdle
    /\ PlainIdle
    /\ PostIdle
    /\ ResolveIdle
    /\ FilterIdle
    /\ TimeIdle
    /\ ClusterIdle
    /\ ChatIdle
    /\ RunsIdle
    /\ TopIdle
    /\ DocsIdle
    /\ DocsIdle
    /\ CacheIdle
    /\ CacheIdle
    /\ ctEnv \in {"error", "empty", "filtered_out", "rows"}
    /\ ctReply \in ClassificationReplies
    /\ ctStatus = "ready"
    /\ ctCalls = 0
    /\ ctResult = [thrown |-> FALSE, kind |-> "none", total |-> 0, breakdown |-> <<>>]

InvokeAnalyzeContentTypes ==
    /\ ctStatus = "ready"
    /\ LET r == analyzeContentTypes(ctEnv, ctReply) IN
       /\ ctResult' = [thrown |-> r.thrown, kind |-> r.kind, total |-> r.total,
                       breakdown |-> r.breakdown]
       /\ ctCalls' = ctCalls + r.calls
    /\ ctStatus' = "done"
    /\ UNCHANGED <<ctEnv, ctReply>>
    /\ UNCHANGED nonTypesVars

TypesNext == InvokeAnalyzeContentTypes

TypesSpec == TypesInit /\ [][TypesNext]_vars

(***************************************************************************)
(* C36.  An invocation of analyze_content_types that reaches the           *)
(* classification makes exactly one classification call.  When the reply   *)
(* holds no parsable JSON object the tool returns a structured error and   *)
(* no breakdown.  In a returned breakdown the counts sum to the number of  *)
(* analysed items, every type has a count of at least 1, a top_3_count     *)
(* between 0 and its count and exactly one example, no type occurs twice,  *)
(* and the types are ordered by count descending.                          *)
(***************************************************************************)
RECURSIVE SumCounts(_, _)
SumCounts(breakdown, k) ==
    IF k = 0 THEN 0 ELSE SumCounts(breakdown, k - 1) + breakdown[k].count

C36_BreakdownConsistent ==
    (ctStatus = "done") =>
        /\ ctCalls = (IF ctEnv = "rows" THEN 1 ELSE 0)
        /\ (ctEnv = "rows" /\ ctReply.kind = "no_json") =>
              (~ctResult.thrown /\ ctResult.kind = "{error}" /\ ctResult.breakdown = <<>>)
        /\ (ctResult.kind = "content_type_breakdown") =>
              LET b == ctResult.breakdown IN
              /\ ctResult.total = Len(ctReply.analyses)
              /\ SumCounts(b, Len(b)) = ctResult.total
              /\ \A k \in 1..Len(b) :
                    /\ b[k].count >= 1
                    /\ 0 <= b[k].top_3_count /\ b[k].top_3_count <= b[k].count
                    /\ Len(b[k].examples) = 1
              /\ \A j, k \in 1..Len(b) :
                    /\ (j < k) => b[j].count >= b[k].count
                    /\ (j # k) => b[j].content_type # b[k].content_type

\* two types, the second seen being the more frequent, are reordered
C36_Witness ==
    /\ ctStatus = "done"
    /\ ctResult.kind = "content_type_breakdown"
    /\ Len(ctReply.analyses) = 3
    /\ ctReply.analyses[1].content_type = "Guide"
    /\ Len(ctResult.breakdown) = 2
    /\ ctResult.breakdown[1].content_type = "Video"
    /\ ctResult.breakdown[1].count = 2
    /\ ctResult.breakdown[1].top_3_count = 1

(***************************************************************************)
(* C38.  The report of applyIntentFilterToItems is consistent:             *)
(* filteredItems is a subsequence of items in their order;                 *)
(* filteredOutCount is |items| - |filteredItems| and is not negative;      *)
(* intentFilterApplied is true exactly when the relevance filter returned  *)
(* a keep set that is not null; and when intentFilterApplied is false,     *)
(* filteredItems is items and filteredOutCount is 0.                       *)
(***************************************************************************)
RECURSIVE IsSubsequence(_, _)
IsSubsequence(s, t) ==
    IF s = <<>> THEN TRUE
    ELSE IF t = <<>> THEN FALSE
    ELSE IF Head(s) = Head(t) THEN IsSubsequence(Tail(s), Tail(t))
    ELSE IsSubsequence(s, Tail(t))

C38_FilterReportConsistent ==
    (fStatus = "returned") =>
        /\ IsSubsequence(fResult.filteredItems, fItems)
        /\ fResult.filteredOutCount = Len(fItems) - Len(fResult.filteredItems)
        /\ fResult.filteredOutCount >= 0
        /\ fResult.intentFilterApplied <=> ~fKeep.null
        /\ ~fResult.intentFilterApplied =>
              (fResult.filteredItems = fItems /\ fResult.filteredOutCount = 0)

\* a filter that was applied and one that was not, over the same two items
C38_Witness ==
    /\ fStatus = "returned"
    /\ Len(fItems) = 2
    /\ fResult.intentFilterApplied
    /\ fResult.filteredItems = <<fItems[2]>>
    /\ fResult.filteredOutCount = 1

C38_WitnessNotApplied ==
    /\ fStatus = "returned"
    /\ Len(fItems) = 2
    /\ fCalls # <<>>
    /\ ~fResult.intentFilterApplied
    /\ fResult.filteredItems = fItems

(***************************************************************************)
(* getFilteredDocsAndContext and the strict extractor (agentic tasks       *)
(* 27-61, 279-304).                                                        *)
(***************************************************************************)
TargetIntents == {"informational", "navigational", "transactional", "null"}

\* what cheapModel.invoke followed by parser.parse can do
TargetIntentOutcomes ==
    { [kind |-> "rejects", targetIntent |-> "null"],
      [kind |-> "unparsable", targetIntent |-> "null"] }
      \cup { [kind |-> "parsed", targetIntent |-> t] : t \in TargetIntents }

NullIntent == [null |-> TRUE, intent |-> "null"]

\* extractTargetIntent: the explicit intent, or null
extractTargetIntentMutKeepsNullWord(outcome) ==
    IF outcome.kind = "parsed" THEN [null |-> FALSE, intent |-> outcome.targetIntent]
    ELSE NullIntent
extractTargetIntent(outcome) ==
    IF outcome.kind = "parsed"
    THEN IF outcome.targetIntent = "null" THEN NullIntent
         ELSE [null |-> FALSE, intent |-> outcome.targetIntent]
    ELSE \* catch
         NullIntent

\* the text of an intent of the extractor's schema
intentText(targetIntent) ==
    CASE targetIntent = "informational" -> <<"info", "rmational">>
      [] targetIntent = "navigational" -> <<"nav", "igational">>
      [] targetIntent = "transactional" -> <<"trans", "actional">>
      [] OTHER -> <<targetIntent>>

\* getFilteredDocsAndContext: [thrown, docs, context, invoked, calls]
getFilteredDocsAndContext(query, docs, extractOutcome, intentOutcome, filterOutcome) ==
    LET targetIntent == extractTargetIntent(extractOutcome) IN
    IF ~targetIntent.null
    THEN LET r == applyIntentFilterToItems(query, Present(intentText(targetIntent.intent)),
                                           docs, intentOutcome, filterOutcome)
         IN  [thrown |-> r.thrown,
              docs |-> r.value.filteredItems,
              context |-> <<"INTENT FILTER", r.value.resolvedIntent.intent>>,
              invoked |-> <<"extractTargetIntent", "resolveSearchIntent",
                            "filterItemsByIntent">>,
              calls |-> <<"extract">> \o r.calls]
    ELSE [thrown |-> FALSE, docs |-> docs, context |-> <<>>,
          invoked |-> <<"extractTargetIntent">>, calls |-> <<"extract">>]

DocsInit ==
    /\ RunIdle
    /\ GuardIdle
    /\ ToolIdle
    /\ PlainIdle
    /\ PostIdle
    /\ ResolveIdle
    /\ FilterIdle
    /\ TimeIdle
    /\ ClusterIdle
    /\ ChatIdle
    /\ RunsIdle
    /\ TopIdle
    /\ TypesIdle
    /\ CacheIdle
    /\ CacheIdle
    /\ dQuery \in ResolverQueries \ {Absent}
    /\ dDocs \in FilterItems
    /\ dExtract \in TargetIntentOutcomes
    /\ dStatus = "ready"
    /\ dResult = [docs |-> <<>>, context |-> <<>>, invoked |-> <<>>, calls |-> <<>>]

GetFilteredDocsAndContext ==
    /\ dStatus = "ready"
    /\ \E intentOutcome \in IntentModelOutcomes, filterOutcome \in FilterModelOutcomes :
          LET r == getFilteredDocsAndContext(dQuery, dDocs, dExtract,
                                             intentOutcome, filterOutcome) IN
          /\ dStatus' = IF r.thrown THEN "thrown" ELSE "returned"
          /\ dResult' = [docs |-> r.docs, context |-> r.context,
                         invoked |-> r.invoked, calls |-> r.calls]
    /\ UNCHANGED <<dQuery, dDocs, dExtract>>
    /\ UNCHANGED nonDocsVars

DocsNext == GetFilteredDocsAndContext

DocsSpec == DocsInit /\ [][DocsNext]_vars

(***************************************************************************)
(* C37.  Intent filtering in getFilteredDocsAndContext is gated by the     *)
(* strict extractor.  When it reports no explicit intent (the model        *)
(* answers "null", or its call or parsing fails) the documents are         *)
(* returned unchanged with an empty context, and neither the intent        *)
(* resolver nor the relevance filter is invoked; a context is produced     *)
(* only when the extractor returned an intent.                             *)
(***************************************************************************)
NoExplicitIntent == dExtract.kind # "parsed" \/ dExtract.targetIntent = "null"

C37_FilteringGatedByStrictExtractor ==
    (dStatus \in {"returned", "thrown"}) =>
        /\ NoExplicitIntent =>
              /\ dStatus = "returned"
              /\ dResult.docs = dDocs
              /\ dResult.context = <<>>
              /\ dResult.invoked = <<"extractTargetIntent">>
              /\ dResult.calls = <<"extract">>
        /\ (dResult.context # <<>>) =>
              /\ ~NoExplicitIntent
              /\ dResult.context = <<"INTENT FILTER", dExtract.targetIntent>>

\* the extractor's model answers "null" over two documents and a query
C37_Witness ==
    /\ dStatus = "returned"
    /\ dExtract = [kind |-> "parsed", targetIntent |-> "null"]
    /\ Len(dDocs) = 2
    /\ dQuery = Present(<<"q">>)
    /\ dResult.docs = dDocs
    /\ dResult.context = <<>>

\* the extractor returned an intent and the filter dropped a document
C37_WitnessFiltered ==
    /\ dStatus = "returned"
    /\ dExtract.targetIntent = "informational"
    /\ Len(dDocs) = 2
    /\ Len(dResult.docs) = 1
    /\ dResult.context # <<>>

(***************************************************************************)
(* The cache of the vector store under concurrent callers (store module    *)
(* 12-14, 45-60, 90-92).  A caller runs getVectorStore up to its return in *)
(* one step (the code holds no await before it) and resumes when the       *)
(* promise it received has settled.  A promise is known by its place in    *)
(* `promises`.                                                             *)
(***************************************************************************)
Callers == 1..MaxCallers

NothingGot == [resets |-> 0, promise |-> 0, outcome |-> "none"]

\* createVectorStore: rejected at once when getSupabaseClient throws
createVectorStore(ready, epoch) ==
    [resets |-> epoch, state |-> IF ready THEN "pending" ELSE "rejected"]

\* if (!vectorStorePromise)
cacheEmptyMutRetriesRejected(held, created) == held = 0 \/ created[held].state = "rejected"
cacheEmpty(held, created) == held = 0

\* getVectorStore up to its return: [vectorStorePromise, promises]
getVectorStoreCall(held, created, ready, epoch) ==
    IF cacheEmpty(held, created)
    THEN [vectorStorePromise |-> Len(created) + 1,
          promises |-> Append(created, createVectorStore(ready, epoch))]
    ELSE [vectorStorePromise |-> held, promises |-> created]

\* resetVectorStoreCache
resetVectorStoreCache == 0

CacheInit ==
    /\ RunIdle
    /\ GuardIdle
    /\ ToolIdle
    /\ PlainIdle
    /\ PostIdle
    /\ ResolveIdle
    /\ FilterIdle
    /\ TimeIdle
    /\ ClusterIdle
    /\ ChatIdle
    /\ RunsIdle
    /\ TopIdle
    /\ TypesIdle
    /\ DocsIdle
    /\ envReady \in BOOLEAN
    /\ heldPromise = 0
    /\ promises = <<>>
    /\ resets = 0
    /\ callerPc = [c \in Callers |-> "ready"]
    /\ callerGot = [c \in Callers |-> NothingGot]

\* a caller calls getVectorStore
CallGetVectorStore ==
    \E c \in Callers :
        /\ callerPc[c] = "ready"
        /\ LET r == getVectorStoreCall(heldPromise, promises, envReady, resets) IN
           /\ heldPromise' = r.vectorStorePromise
           /\ promises' = r.promises
           /\ callerGot' = [callerGot EXCEPT ![c] =
                               [resets |-> resets, promise |-> r.vectorStorePromise,
                                outcome |-> "none"]]
        /\ callerPc' = [callerPc EXCEPT ![c] = "awaiting"]
        /\ UNCHANGED <<envReady, resets>>
        /\ UNCHANGED nonCacheVars

\* SupabaseVectorStore.fromExistingIndex settles a pending promise
PromiseSettles ==
    \E k \in 1..Len(promises), outcome \in {"resolved", "rejected"} :
        /\ promises[k].state = "pending"
        /\ promises' = [promises EXCEPT ![k].state = outcome]
        /\ UNCHANGED <<envReady, heldPromise, resets, callerPc, callerGot>>
        /\ UNCHANGED nonCacheVars

\* a caller's await ends with the outcome of the promise it received
CallerResumes ==
    \E c \in Callers :
        /\ callerPc[c] = "awaiting"
        /\ promises[callerGot[c].promise].state # "pending"
        /\ callerGot' = [callerGot EXCEPT ![c].outcome = promises[callerGot[c].promise].state]
        /\ callerPc' = [callerPc EXCEPT ![c] = "done"]
        /\ UNCHANGED <<envReady, heldPromise, promises, resets>>
        /\ UNCHANGED nonCacheVars

ResetVectorStoreCache ==
    /\ resets < MaxResets
    /\ heldPromise' = resetVectorStoreCache
    /\ resets' = resets + 1
    /\ UNCHANGED <<envReady, promises, callerPc, callerGot>>
    /\ UNCHANGED nonCacheVars

\* the environment variables are set while the process runs
EnvironmentLoaded ==
    /\ ~envReady
    /\ envReady' = TRUE
    /\ UNCHANGED <<heldPromise, promises, resets, callerPc, callerGot>>
    /\ UNCHANGED nonCacheVars

CacheNext ==
    \/ CallGetVectorStore
    \/ PromiseSettles
    \/ CallerResumes
    \/ ResetVectorStoreCache
    \/ EnvironmentLoaded

CacheSpec == CacheInit /\ [][CacheNext]_vars

(***************************************************************************)
(* C39.  Between two calls of resetVectorStoreCache the store creation is  *)
(* started at most once, whatever the interleaving of the callers: the     *)
(* callers between the same two resets receive the same promise and        *)
(* observe the same outcome, and a creation that failed is not started     *)
(* again until the cache is reset.                                         *)
(***************************************************************************)
Called == { c \in Callers : callerPc[c] # "ready" }

C39_OneCreationBetweenResets ==
    /\ \A j, k \in 1..Len(promises) : promises[j].resets = promises[k].resets => j = k
    /\ \A c \in Called :
          /\ callerGot[c].promise \in 1..Len(promises)
          /\ promises[callerGot[c].promise].resets = callerGot[c].resets
          /\ (callerPc[c] = "done") =>
                callerGot[c].outcome = promises[callerGot[c].promise].state
    /\ \A c1, c2 \in Called :
          (callerGot[c1].resets = callerGot[c2].resets) =>
              /\ callerGot[c1].promise = callerGot[c2].promise
              /\ (callerPc[c1] = "done" /\ callerPc[c2] = "done") =>
                    callerGot[c1].outcome = callerGot[c2].outcome

\* two callers were rejected by one failed creation although the environment
\* was complete when the second called; a third, after a reset, was served
C39_Witness ==
    /\ Len(promises) = 2
    /\ promises[1].state = "rejected"
    /\ promises[2].state = "resolved"
    /\ \E c1, c2, c3 \in Callers :
          /\ c1 # c2
          /\ callerPc[c1] = "done" /\ callerPc[c2] = "done" /\ callerPc[c3] = "done"
          /\ callerGot[c1].promise = 1 /\ callerGot[c2].promise = 1
          /\ callerGot[c1].outcome = "rejected" /\ callerGot[c2].outcome = "rejected"
          /\ callerGot[c3].promise = 2 /\ callerGot[c3].outcome = "resolved"

====
